---- MODULE Spec2Model ----
(***************************************************************************)
(* AsyncStream (src/index.ts): a lazy wrapper around an async iterable     *)
(* iterator.  Every combinator (pack, repack, flat, map, filter, skip,     *)
(* take, takeLast) builds an async generator that drives the stream it was *)
(* called on; every terminal operation drives a stream with `for await`.   *)
(*                                                                         *)
(* The model keeps the raw source, the table of streams built so far, the  *)
(* terminal operation in progress and the record of the calls made.        *)
(***************************************************************************)
EXTENDS Integers, Sequences, FiniteSets, TLC

(***************************************************************************)
(* Bounds of the model.                                                    *)
(***************************************************************************)
MaxLen == 3
MaxArg == 2
MaxTree == 2
MaxGroup == 3
MaxPages == 2
MaxPage == 2
NatCap == 13
MaxTakes == 2
MaxPending == 3
MaxWide == 3
MaxSkipLen == 5
MaxPulls == 6

(***************************************************************************)
(* JavaScript values: a number, an array of values, or undefined.  One     *)
(* record shape for all three, so that any two values can be compared.     *)
(***************************************************************************)
Num(i) == [k |-> "num", n |-> i, a |-> <<>>]
Arr(xs) == [k |-> "arr", n |-> 0, a |-> xs]
Undef == [k |-> "undef", n |-> 0, a |-> <<>>]

isArray_anything(v) == TRUE
isArray(v) == v.k = "arr"

Min(a, b) == IF a < b THEN a ELSE b

\* buffer.slice(from) and buffer.slice(0, to), zero-based as in JavaScript
sliceFrom_dropsMore(xs, from) == SubSeq(xs, from + 2, Len(xs))
sliceFrom(xs, from) == SubSeq(xs, from + 1, Len(xs))
sliceTo(xs, to) == SubSeq(xs, 1, Min(to, Len(xs)))

\* [1, 2, ..., len] as values
Range(len) == [i \in 1..len |-> Num(i)]

(***************************************************************************)
(* Results of a pull: { done, value }, or a rejected promise (err # "").   *)
(***************************************************************************)
Yield(v) == [done |-> FALSE, value |-> v, err |-> ""]
Done(v) == [done |-> TRUE, value |-> v, err |-> ""]
Reject(e) == [done |-> TRUE, value |-> Undef, err |-> e]

(***************************************************************************)
(* User callbacks, named.  transform is a map callback, predicate a filter *)
(* callback; throws tells when the callback fails instead of returning.    *)
(***************************************************************************)
Transforms == {"square", "double", "doublePlusIndex", "failAtOne"}
Predicates == {"even", "indexEven", "never"}

transform(fn, item, index) ==
    CASE fn = "square" -> Num(item.n * item.n)
      [] fn = "double" -> Num(item.n * 2)
      [] fn = "doublePlusIndex" -> Num(item.n * 2 + index)
      [] OTHER -> item

predicate(fn, item, index) ==
    CASE fn = "even" -> item.n % 2 = 0
      [] fn = "indexEven" -> index % 2 = 0
      [] fn = "failAtOne" -> TRUE
      [] OTHER -> FALSE

throws(fn, item, index) == fn = "failAtOne" /\ index = 1

\* reduce callbacks and forEach callbacks
Reducers == {"sum", "digits", "failAtOne"}
Actions == {"log", "failAtOne"}

reducer(fn, accumulator, item, index) ==
    CASE fn = "sum" -> Num(accumulator.n + item.n)
      [] fn = "digits" -> Num(accumulator.n * 10 + item.n)
      [] OTHER -> accumulator

(***************************************************************************)
(* The raw source wrapped by the root stream.                              *)
(*   "array":    getGenerator(items)(), yields the items and completes     *)
(*   "naturals": naturalNumbers(), yields 1, 2, 3, ... for ever            *)
(*   "failing":  generator2, yields the items, then throws                 *)
(*   "catching": generator3, yields the items inside try; its catch block  *)
(*               yields -1; after the try statement it yields one more     *)
(*   "finally":  generator4, yields the items inside try; its finally      *)
(*               block yields -1; after the try statement it yields one    *)
(*               more                                                      *)
(*   "nextOnly": generator5, an object with a next method only, which      *)
(*               always gives 1                                            *)
(* state is the generator's state: "start", "yield" (suspended in the loop *)
(* over the items), "caught" (suspended in the catch block), "finally",    *)
(* "finallyReturn", "finallyThrow" (suspended in the finally block, which  *)
(* was entered normally, by a return or by a throw), "after" (suspended    *)
(* after the try statement) or "done".  held and thrown are the value of   *)
(* the pending return and the pending error while the finally block runs.  *)
(* capped records that the model's bound on an unbounded source was hit    *)
(* (such steps are never taken).                                           *)
(***************************************************************************)
RawSource(kind, items) ==
    [kind |-> kind, items |-> items, pos |-> 0, state |-> "start", capped |-> FALSE,
     held |-> Undef, thrown |-> ""]

ArraySource(items) == RawSource("array", items)

NaturalsSource == RawSource("naturals", <<>>)

FailingSource(items) == RawSource("failing", items)

CatchingSource(items) == RawSource("catching", items)

FinallySource(items) == RawSource("finally", items)

NextOnlySource == RawSource("nextOnly", <<>>)

TestError == "Test error"

\* what the generators yield in their catch and finally blocks, and after
\* their try statement
Handled == Num(0 - 1)
AfterTry(src) == Num(Len(src.items) + 1)

SourceDone(src, r) == [src |-> [src EXCEPT !.state = "done"], r |-> r]

SourceYield(src, state, v) == [src |-> [src EXCEPT !.state = state], r |-> Yield(v)]

\* the generator runs on from the end of its loop over the items
SourceAfterItems(src) ==
    CASE src.kind = "failing" -> SourceDone(src, Reject(TestError))
      [] src.kind = "catching" -> SourceYield(src, "after", AfterTry(src))
      [] src.kind = "finally" -> SourceYield(src, "finally", Handled)
      [] OTHER -> SourceDone(src, Done(Undef))

\* one next() on a source that counts without end
SourceCount(src, v) ==
    IF src.pos < NatCap
    THEN [src |-> [src EXCEPT !.pos = @ + 1, !.state = "yield"], r |-> Yield(v)]
    ELSE [src |-> [src EXCEPT !.capped = TRUE], r |-> Done(Undef)]

\* one next() on the raw source
SourceNext(src) ==
    CASE src.kind = "nextOnly" -> SourceCount(src, Num(1))
      [] src.kind = "naturals" /\ src.state # "done" -> SourceCount(src, Num(src.pos + 1))
      [] src.kind # "nextOnly" /\ src.state = "done" -> [src |-> src, r |-> Done(Undef)]
      [] src.kind \notin {"nextOnly", "naturals"} /\ src.state \in {"start", "yield"} ->
           IF src.pos < Len(src.items)
           THEN [src |-> [src EXCEPT !.pos = @ + 1, !.state = "yield"],
                 r |-> Yield(src.items[src.pos + 1])]
           ELSE SourceAfterItems(src)
      [] src.state \in {"caught", "finally"} -> SourceYield(src, "after", AfterTry(src))
      [] src.state = "finallyReturn" -> SourceDone(src, Done(src.held))
      [] src.state = "finallyThrow" -> SourceDone(src, Reject(src.thrown))
      [] src.state = "after" -> SourceDone(src, Done(Undef))

\* the source has a return method, a throw method
hasReturn_always(src) == TRUE
hasReturn(src) == src.kind # "nextOnly"
hasThrow_always(src) == TRUE
hasThrow(src) == src.kind # "nextOnly"

\* the generator is suspended inside the try block
InTry(src) == src.kind \in {"catching", "finally"} /\ src.state = "yield"

\* one return(v) on the raw source: an async generator completes, after
\* its finally block when it is suspended inside the try block
SourceReturn(src, v) ==
    IF src.kind = "finally" /\ InTry(src)
    THEN SourceYield([src EXCEPT !.held = v], "finallyReturn", Handled)
    ELSE SourceDone(src, Done(v))

\* one throw(e) on the raw source: an async generator fails with e, unless
\* it is suspended inside a try block
SourceThrow(src, e) ==
    IF src.kind = "catching" /\ InTry(src)
    THEN SourceYield(src, "caught", Handled)
    ELSE IF src.kind = "finally" /\ InTry(src)
    THEN SourceYield([src EXCEPT !.thrown = e], "finallyThrow", Handled)
    ELSE SourceDone(src, Reject(e))

(***************************************************************************)
(* A stream: the root (kind "source") wraps the raw source, every other    *)
(* one wraps the generator its combinator built over stream `up`.          *)
(*   n, fn    the combinator's argument and callback                       *)
(*   gen      the generator's state: "start", "yield" (suspended at the    *)
(*            yield named by `at`) or "done"                               *)
(*   buffer   pack/repack: buffer; flat: page; takeLast: results           *)
(*   index    map/filter: index; skip/take: count; flat/takeLast: position *)
(*            in the array being iterated                                  *)
(***************************************************************************)
Stream(kind, up, n, fn) ==
    [kind |-> kind, up |-> up, n |-> n, fn |-> fn, gen |-> "start", at |-> "",
     buffer |-> <<>>, index |-> 0]

Root == Stream("source", 0, 0, "")

Suspend(S, s, site, v) ==
    [S |-> [S EXCEPT !.st[s].gen = "yield", !.st[s].at = site], r |-> Yield(v)]

\* a generator that is ready to run again when it has ended
Finish_restarts(S, s, r) ==
    [S |-> [S EXCEPT !.st[s] = Stream(@.kind, @.up, @.n, @.fn)], r |-> r]

Finish(S, s, r) ==
    [S |-> [S EXCEPT !.st[s].gen = "done", !.st[s].at = ""], r |-> r]

InForAwait_always(kind, at) == TRUE
InForAwait_never(kind, at) == FALSE

\* the yields that sit inside a `for await (... of self)` loop
InForAwait(kind, at) ==
    \/ kind \in {"pack", "map", "filter", "skip"} /\ at = "loop"
    \/ kind = "repack" /\ at = "while"
    \/ kind = "flat" /\ at = "inner"

packInvalid(packageSize) == packageSize <= 0
skipInvalid(n) == n < 0
takeInvalid(n) == n < 0
takeLastInvalid_allowsZero(n) == n < 0
takeLastInvalid(n) == n <= 0

packFull_late(buffer, packageSize) == Len(buffer) = packageSize + 1
packFull(buffer, packageSize) == Len(buffer) = packageSize
repackFull_exact(buffer, packageSize) == Len(buffer) = packageSize
repackFull(buffer, packageSize) == Len(buffer) >= packageSize
takeMore_offByOne(count, n) == count <= n
takeMore(count, n) == count < n
skipMore_offByOne(count, n) == count <= n
skipMore(count, n) == count < n
windowOver_early(results, n) == Len(results) >= n
windowOver(results, n) == Len(results) > n

(***************************************************************************)
(* Driving a stream.  S is [src, st, tr]: the raw source, the stream table *)
(* and the trace of the next() and return() calls made on streams since    *)
(* the running call began.  Each operator returns [S, r]: the state after  *)
(* the call and its result.                                                *)
(*   Pull(S, s)        AsyncStream.next on stream s                        *)
(*   Return(S, s, v)   AsyncStream.return(v) on stream s                   *)
(* The loops of the generators pull their upstream until they yield,       *)
(* complete or fail.                                                       *)
(***************************************************************************)
RECURSIVE Pull(_, _), Return(_, _, _), Throw(_, _, _)
RECURSIVE packLoop(_, _), repackLoop(_, _), flatLoop(_, _), mapLoop(_, _)
RECURSIVE filterLoop(_, _), skipWhile(_, _), skipLoop(_, _), takeLastLoop(_, _)

\* a failure in the body of the loop that ends the generator normally
Abort_swallows(S, s, e) ==
    LET c == Return(S, S.st[s].up, Undef)
    IN  Finish(c.S, s, Done(Undef))

\* a failure in the body of the loop that is thrown into the iterator
Abort_passesError(S, s, e) ==
    LET c == Throw(S, S.st[s].up, e)
    IN  Finish(c.S, s, Reject(e))

\* a failure in the body of the loop that leaves the iterator open
Abort_leavesOpen(S, s, e) == Finish(S, s, Reject(e))

\* a failure in the body of `for await (... of self)`: the loop closes the
\* iterator with self.return() and the generator fails with e
Abort(S, s, e) ==
    LET c == Return(S, S.st[s].up, Undef)
    IN  Finish(c.S, s, Reject(e))

\* pack emitting its buffer at the end even when it is empty
packLoop_emitsEmpty(S, s) ==
    LET u == Pull(S, S.st[s].up)
        T == u.S
    IN  IF u.r.err # "" THEN Finish(T, s, Reject(u.r.err))
        ELSE IF u.r.done
        THEN Suspend(T, s, "tail", Arr(T.st[s].buffer))
        ELSE LET B == [T EXCEPT !.st[s].buffer = Append(@, u.r.value)]
             IN  IF packFull(B.st[s].buffer, B.st[s].n)
                 THEN Suspend(B, s, "loop", Arr(B.st[s].buffer))
                 ELSE packLoop(B, s)

\* pack, lines 86-97
packLoop(S, s) ==
    LET u == Pull(S, S.st[s].up)
        T == u.S
    IN  IF u.r.err # "" THEN Finish(T, s, Reject(u.r.err))
        ELSE IF u.r.done
        THEN IF Len(T.st[s].buffer) > 0
             THEN Suspend(T, s, "tail", Arr(T.st[s].buffer))
             ELSE Finish(T, s, Done(Undef))
        ELSE LET B == [T EXCEPT !.st[s].buffer = Append(@, u.r.value)]
             IN  IF packFull(B.st[s].buffer, B.st[s].n)
                 THEN Suspend(B, s, "loop", Arr(B.st[s].buffer))
                 ELSE packLoop(B, s)

\* repack, lines 134-137: the while loop over the buffer
repackWhile(S, s) ==
    IF repackFull(S.st[s].buffer, S.st[s].n)
    THEN Suspend(S, s, "while", Arr(sliceTo(S.st[s].buffer, S.st[s].n)))
    ELSE repackLoop(S, s)

\* repack, lines 124-142
repackLoop(S, s) ==
    LET u == Pull(S, S.st[s].up)
        T == u.S
    IN  IF u.r.err # "" THEN Finish(T, s, Reject(u.r.err))
        ELSE IF u.r.done
        THEN IF Len(T.st[s].buffer) > 0
             THEN Suspend(T, s, "tail", Arr(T.st[s].buffer))
             ELSE Finish(T, s, Done(Undef))
        ELSE IF ~isArray(u.r.value) THEN Abort(T, s, "TypeError")
        ELSE repackWhile([T EXCEPT !.st[s].buffer = @ \o u.r.value.a], s)

\* flat, line 167: the item of the page at a zero-based position
pageItem_backwards(page, index) == page[Len(page) - index]
pageItem(page, index) == page[index + 1]

\* flat, lines 167-169: the loop over the page
flatInner(S, s) ==
    IF S.st[s].index < Len(S.st[s].buffer)
    THEN Suspend(S, s, "inner", pageItem(S.st[s].buffer, S.st[s].index))
    ELSE flatLoop(S, s)

\* flat, lines 158-170
flatLoop(S, s) ==
    LET u == Pull(S, S.st[s].up)
        T == u.S
    IN  IF u.r.err # "" THEN Finish(T, s, Reject(u.r.err))
        ELSE IF u.r.done THEN Finish(T, s, Done(Undef))
        ELSE IF ~isArray(u.r.value) THEN Abort(T, s, "TypeError")
        ELSE flatInner([T EXCEPT !.st[s].buffer = u.r.value.a, !.st[s].index = 0], s)

\* the callback of stream s is called with (item, index): the call is
\* added to the trace
Called(S, s, item, index) ==
    [S EXCEPT !.tr = Append(@, [c |-> "call", s |-> s, item |-> item, index |-> index])]

\* map passing index 0 with every item
mapLoop_noIndex(S, s) ==
    LET u == Pull(S, S.st[s].up)
        T == Called(u.S, s, u.r.value, 0)
    IN  IF u.r.err # "" THEN Finish(u.S, s, Reject(u.r.err))
        ELSE IF u.r.done THEN Finish(u.S, s, Done(Undef))
        ELSE IF throws(T.st[s].fn, u.r.value, 0)
        THEN Abort(T, s, T.st[s].fn)
        ELSE Suspend(T, s, "loop", transform(T.st[s].fn, u.r.value, 0))

\* map, lines 189-192
mapLoop(S, s) ==
    LET u == Pull(S, S.st[s].up)
        T == Called(u.S, s, u.r.value, u.S.st[s].index)
    IN  IF u.r.err # "" THEN Finish(u.S, s, Reject(u.r.err))
        ELSE IF u.r.done THEN Finish(u.S, s, Done(Undef))
        ELSE IF throws(T.st[s].fn, u.r.value, T.st[s].index)
        THEN Abort(T, s, T.st[s].fn)
        ELSE Suspend(T, s, "loop", transform(T.st[s].fn, u.r.value, T.st[s].index))

\* filter counting the accepted items only
filterLoop_countsAccepted(S, s) ==
    LET u == Pull(S, S.st[s].up)
        T == Called(u.S, s, u.r.value, u.S.st[s].index)
    IN  IF u.r.err # "" THEN Finish(u.S, s, Reject(u.r.err))
        ELSE IF u.r.done THEN Finish(u.S, s, Done(Undef))
        ELSE IF throws(T.st[s].fn, u.r.value, T.st[s].index)
        THEN Abort(T, s, T.st[s].fn)
        ELSE IF predicate(T.st[s].fn, u.r.value, T.st[s].index)
        THEN Suspend(T, s, "loop", u.r.value)
        ELSE filterLoop(T, s)

\* filter, lines 210-215
filterLoop(S, s) ==
    LET u == Pull(S, S.st[s].up)
        T == Called(u.S, s, u.r.value, u.S.st[s].index)
    IN  IF u.r.err # "" THEN Finish(u.S, s, Reject(u.r.err))
        ELSE IF u.r.done THEN Finish(u.S, s, Done(Undef))
        ELSE IF throws(T.st[s].fn, u.r.value, T.st[s].index)
        THEN Abort(T, s, T.st[s].fn)
        ELSE IF predicate(T.st[s].fn, u.r.value, T.st[s].index)
        THEN Suspend(T, s, "loop", u.r.value)
        ELSE filterLoop([T EXCEPT !.st[s].index = @ + 1], s)

\* skip, lines 306-308
skipLoop(S, s) ==
    LET u == Pull(S, S.st[s].up)
        T == u.S
    IN  IF u.r.err # "" THEN Finish(T, s, Reject(u.r.err))
        ELSE IF u.r.done THEN Finish(T, s, Done(Undef))
        ELSE Suspend(T, s, "loop", u.r.value)

\* skip whose count starts at one
skipWhile_countsFromOne(S, s) ==
    IF S.st[s].n > 0 /\ skipMore(S.st[s].index + 1, S.st[s].n)
    THEN LET u == Pull(S, S.st[s].up)
             T == u.S
         IN  IF u.r.err # "" THEN Finish(T, s, Reject(u.r.err))
             ELSE IF u.r.done THEN Finish(T, s, Done(Undef))
             ELSE skipWhile([T EXCEPT !.st[s].index = @ + 1], s)
    ELSE skipLoop(S, s)

\* skip, lines 296-304
skipWhile(S, s) ==
    IF S.st[s].n > 0 /\ skipMore(S.st[s].index, S.st[s].n)
    THEN LET u == Pull(S, S.st[s].up)
             T == u.S
         IN  IF u.r.err # "" THEN Finish(T, s, Reject(u.r.err))
             ELSE IF u.r.done THEN Finish(T, s, Done(Undef))
             ELSE skipWhile([T EXCEPT !.st[s].index = @ + 1], s)
    ELSE skipLoop(S, s)

\* take pulling once more when its count has reached n
takeFor_looksAhead(S, s) ==
    IF takeMore(S.st[s].index, S.st[s].n)
    THEN LET u == Pull(S, S.st[s].up)
             T == u.S
         IN  IF u.r.err # "" THEN Finish(T, s, Reject(u.r.err))
             ELSE IF u.r.done THEN Finish(T, s, Done(Undef))
             ELSE Suspend(T, s, "loop", u.r.value)
    ELSE Finish(Pull(S, S.st[s].up).S, s, Done(Undef))

\* take pulling before it tests its count
takeFor_pullsFirst(S, s) ==
    LET u == Pull(S, S.st[s].up)
        T == u.S
    IN  IF u.r.err # "" THEN Finish(T, s, Reject(u.r.err))
        ELSE IF u.r.done \/ ~takeMore(T.st[s].index, T.st[s].n)
        THEN Finish(T, s, Done(Undef))
        ELSE Suspend(T, s, "loop", u.r.value)

\* take, lines 351-357: the loop test, one pull, break or yield
takeFor(S, s) ==
    IF takeMore(S.st[s].index, S.st[s].n)
    THEN LET u == Pull(S, S.st[s].up)
             T == u.S
         IN  IF u.r.err # "" THEN Finish(T, s, Reject(u.r.err))
             ELSE IF u.r.done THEN Finish(T, s, Done(Undef))
             ELSE Suspend(T, s, "loop", u.r.value)
    ELSE Finish(S, s, Done(Undef))

\* takeLast, lines 386-388
takeLastEmit(S, s) ==
    IF S.st[s].index < Len(S.st[s].buffer)
    THEN Suspend(S, s, "emit", S.st[s].buffer[S.st[s].index + 1])
    ELSE Finish(S, s, Done(Undef))

\* takeLast, lines 379-384
takeLastLoop(S, s) ==
    LET u == Pull(S, S.st[s].up)
        T == u.S
    IN  IF u.r.err # "" THEN Finish(T, s, Reject(u.r.err))
        ELSE IF u.r.done THEN takeLastEmit([T EXCEPT !.st[s].index = 0], s)
        ELSE LET pushed == Append(T.st[s].buffer, u.r.value)
                 kept == IF windowOver(pushed, T.st[s].n) THEN Tail(pushed) ELSE pushed
             IN  takeLastLoop([T EXCEPT !.st[s].buffer = kept], s)

\* the generator of stream s runs from where it is suspended to its next
\* yield, its completion or its failure
Resume(S, s) ==
    LET g == S.st[s]
        fresh == g.gen = "start"
    IN  CASE g.kind = "pack" ->
               IF g.at = "tail" THEN Finish(S, s, Done(Undef))
               ELSE packLoop([S EXCEPT !.st[s].buffer = <<>>], s)
          [] g.kind = "repack" ->
               IF fresh THEN repackLoop(S, s)
               ELSE IF g.at = "tail" THEN Finish(S, s, Done(Undef))
               ELSE repackWhile([S EXCEPT !.st[s].buffer = sliceFrom(@, g.n)], s)
          [] g.kind = "flat" ->
               IF fresh THEN flatLoop(S, s)
               ELSE flatInner([S EXCEPT !.st[s].index = @ + 1], s)
          [] g.kind = "map" ->
               IF fresh THEN mapLoop(S, s)
               ELSE mapLoop([S EXCEPT !.st[s].index = @ + 1], s)
          [] g.kind = "filter" ->
               IF fresh THEN filterLoop(S, s)
               ELSE filterLoop([S EXCEPT !.st[s].index = @ + 1], s)
          [] g.kind = "skip" ->
               IF fresh THEN skipWhile(S, s) ELSE skipLoop(S, s)
          [] g.kind = "take" ->
               IF fresh THEN takeFor(S, s)
               ELSE takeFor([S EXCEPT !.st[s].index = @ + 1], s)
          [] g.kind = "takeLast" ->
               IF fresh THEN takeLastLoop(S, s)
               ELSE takeLastEmit([S EXCEPT !.st[s].index = @ + 1], s)

\* AsyncStream.next, lines 42-44: forwards to the wrapped iterator
Pull(S, s) ==
    LET N == [S EXCEPT !.tr = Append(@, [c |-> "next", s |-> s])]
    IN  IF N.st[s].kind = "source"
        THEN LET x == SourceNext(N.src) IN [S |-> [N EXCEPT !.src = x.src], r |-> x.r]
        ELSE IF N.st[s].gen = "done" THEN [S |-> N, r |-> Done(Undef)]
        ELSE Resume(N, s)

\* AsyncStream.return, lines 52-56: forwards to the wrapped iterator; a
\* generator suspended inside `for await (... of self)` closes self first
Return(S, s, v) ==
    LET N == [S EXCEPT !.tr = Append(@, [c |-> "return", s |-> s])]
        g == N.st[s]
    IN  IF g.kind = "source"
        THEN IF hasReturn(N.src)
             THEN LET x == SourceReturn(N.src, v)
                  IN  [S |-> [N EXCEPT !.src = x.src], r |-> x.r]
             ELSE [S |-> N, r |-> Done(Undef)]
        ELSE IF g.gen = "yield" /\ InForAwait(g.kind, g.at)
        THEN LET c == Return(N, g.up, Undef)
             IN  Finish(c.S, s, IF c.r.err # "" THEN Reject(c.r.err) ELSE Done(v))
        ELSE Finish(N, s, Done(v))

\* AsyncStream.throw, lines 64-66: forwards to the wrapped iterator; a
\* generator suspended inside `for await (... of self)` closes self and
\* fails with e, any other generator fails with e
Throw(S, s, e) ==
    LET N == [S EXCEPT !.tr = Append(@, [c |-> "throw", s |-> s])]
        g == N.st[s]
    IN  IF g.kind = "source"
        THEN IF hasThrow(N.src)
             THEN LET x == SourceThrow(N.src, e)
                  IN  [S |-> [N EXCEPT !.src = x.src], r |-> x.r]
             ELSE [S |-> N, r |-> Reject(e)]
        ELSE IF g.gen = "yield" /\ InForAwait(g.kind, g.at)
        THEN Abort(N, s, e)
        ELSE Finish(N, s, Reject(e))

(***************************************************************************)
(* State.                                                                  *)
(*   src   the raw source wrapped by stream 1                              *)
(*   st    the streams built so far; st[1] is `new AsyncStream(source)`    *)
(*   run   the terminal operation in progress (op = "" when there is none) *)
(*   last  the call completed last: its arguments, its outcome, the state  *)
(*         it began in (pre), the calls it made on streams (tr) and the    *)
(*         call made before it (prev); arg and e are the value passed to   *)
(*         return and the error passed to throw                            *)
(***************************************************************************)
VARIABLES src, st, run, last

vars == <<src, st, run, last>>

Now == [src |-> src, st |-> st, tr |-> <<>>]

NoPrev == [same |-> 0, refused |-> FALSE]

\* what a call keeps of the call made before it: the stream that call handed
\* back when it was the stream it was made on, and whether it was refused
Brief(e) == [same |-> IF e.ret = e.s THEN e.ret ELSE 0, refused |-> e.err = "RangeError"]

Idle == [op |-> "", s |-> 0, fn |-> "", arg |-> Undef, results |-> <<>>, count |-> 0,
         lastItem |-> Undef, accumulator |-> Undef, index |-> 0,
         pre |-> <<>>, tr |-> <<>>, prev |-> NoPrev]

BlankEntry(op, s, n, fn, pre, prev) ==
    [op |-> op, s |-> s, n |-> n, fn |-> fn, arg |-> Undef, e |-> "", ret |-> 0, err |-> "",
     done |-> FALSE, value |-> Undef, out |-> <<>>, num |-> 0,
     pre |-> pre, tr |-> <<>>, prev |-> prev]

Entry(op, s, n, fn, pre) == BlankEntry(op, s, n, fn, pre, Brief(last))

NoCall == BlankEntry("", 0, 0, "", <<>>, NoPrev)

Streams == 1..Len(st)

CanCall == run.op = ""

\* a call that fails at once with a RangeError
Refuse(op, s, n) ==
    /\ last' = [Entry(op, s, n, "", Now) EXCEPT !.err = "RangeError"]
    /\ UNCHANGED <<src, st, run>>

\* a combinator that pulls its upstream once while it builds its stage
Build_eager(op, s, n, fn) ==
    LET x == Pull(Now, s)
    IN  /\ st' = Append(x.S.st, Stream(op, s, n, fn))
        /\ src' = x.S.src
        /\ last' = [Entry(op, s, n, fn, Now) EXCEPT !.ret = Len(st) + 1]
        /\ UNCHANGED run

\* `return new AsyncStream(generator())`: a new stream over s, not started
Build(op, s, n, fn) ==
    /\ st' = Append(st, Stream(op, s, n, fn))
    /\ last' = [Entry(op, s, n, fn, Now) EXCEPT !.ret = Len(st) + 1]
    /\ UNCHANGED <<src, run>>

\* lines 76-101
pack(s, packageSize) ==
    /\ CanCall
    /\ IF packInvalid(packageSize) THEN Refuse("pack", s, packageSize)
       ELSE Build("pack", s, packageSize, "")

\* lines 114-146
repack(s, packageSize) ==
    /\ CanCall
    /\ IF packInvalid(packageSize) THEN Refuse("repack", s, packageSize)
       ELSE Build("repack", s, packageSize, "")

\* lines 154-174
flat(s) ==
    /\ CanCall
    /\ Build("flat", s, 0, "")

\* lines 182-196
map(s, fn) ==
    /\ CanCall
    /\ Build("map", s, 0, fn)

\* lines 203-219
filter(s, fn) ==
    /\ CanCall
    /\ Build("filter", s, 0, fn)

\* lines 286-312
skip(s, n) ==
    /\ CanCall
    /\ IF skipInvalid(n) THEN Refuse("skip", s, n)
       ELSE Build("skip", s, n, "")

\* take without the n === 0 shortcut
take_alwaysBuilds(s, n) ==
    /\ CanCall
    /\ IF takeInvalid(n) THEN Refuse("take", s, n)
       ELSE Build("take", s, n, "")

\* lines 341-361: take(0) hands back the stream it was called on
take(s, n) ==
    /\ CanCall
    /\ IF takeInvalid(n) THEN Refuse("take", s, n)
       ELSE IF n = 0
       THEN /\ last' = [Entry("take", s, n, "", Now) EXCEPT !.ret = s]
            /\ UNCHANGED <<src, st, run>>
       ELSE Build("take", s, n, "")

\* lines 370-392
takeLast(s, n) ==
    /\ CanCall
    /\ IF takeLastInvalid(n) THEN Refuse("takeLast", s, n)
       ELSE Build("takeLast", s, n, "")

\* the outcome x of a call that makes one call on stream s, made
\* with the value v or the error e passed to it
SettleWith(op, s, v, e, x) ==
    /\ ~x.S.src.capped
    /\ src' = x.S.src
    /\ st' = x.S.st
    /\ last' = [Entry(op, s, 0, "", Now) EXCEPT
                  !.arg = v, !.e = e,
                  !.err = x.r.err, !.done = x.r.done, !.value = x.r.value, !.tr = x.S.tr]
    /\ UNCHANGED run

Settle(op, s, x) == SettleWith(op, s, Undef, "", x)

\* next giving the item without moving on
next_peeks(s) ==
    /\ CanCall
    /\ LET x == Pull(Now, s)
       IN  /\ last' = [Entry("next", s, 0, "", Now) EXCEPT
                         !.err = x.r.err, !.done = x.r.done, !.value = x.r.value, !.tr = x.S.tr]
           /\ UNCHANGED <<src, st, run>>

\* lines 42-44
next(s) ==
    /\ CanCall
    /\ Settle("next", s, Pull(Now, s))

\* lines 52-56
return(s, v) ==
    /\ CanCall
    /\ SettleWith("return", s, v, "", Return(Now, s, v))

\* lines 64-66
throw(s, e) ==
    /\ CanCall
    /\ SettleWith("throw", s, Undef, e, Throw(Now, s, e))

\* first pulling twice
first_pullsTwice(s) ==
    /\ CanCall
    /\ Settle("first", s, LET a == Pull(Now, s) IN [S |-> Pull(a.S, s).S, r |-> a.r])

\* lines 318-320
first(s) ==
    /\ CanCall
    /\ Settle("first", s, Pull(Now, s))

\* a terminal operation that loops over the stream starts, with its
\* callback fn and its initial value
StartWith(op, s, fn, initialValue) ==
    /\ CanCall
    /\ run' = [Idle EXCEPT !.op = op, !.s = s, !.fn = fn, !.arg = initialValue,
                          !.accumulator = initialValue, !.pre = Now, !.prev = Brief(last)]
    /\ UNCHANGED <<src, st, last>>

Start(op, s) == StartWith(op, s, "", Undef)

\* lines 228-241
reduce(s, fn, initialValue) == StartWith("reduce", s, fn, initialValue)

\* lines 248-257
forEach(s, fn) == StartWith("forEach", s, fn, Undef)

\* lines 263-271
collect(s) == Start("collect", s)

\* drain making one pull
drain_pullsOnce(s) ==
    /\ CanCall
    /\ Settle("drain", s, Pull(Now, s))

\* lines 277-279
drain(s) == Start("drain", s)

\* lines 328-334
Last(s) == Start("last", s)

\* count starting from one
count_fromOne(s) ==
    /\ CanCall
    /\ run' = [Idle EXCEPT !.op = "count", !.s = s, !.count = 1, !.pre = Now, !.prev = Brief(last)]
    /\ UNCHANGED <<src, st, last>>

\* lines 400-406
count(s) == Start("count", s)

\* collect() as a whole, lines 263-271: the loop over stream s from state
\* S, items being the items pushed so far; gives the array returned, or the
\* failure, and the state the loop ends in
RECURSIVE collected(_, _, _)
collected(S, s, items) ==
    LET x == Pull(S, s)
    IN  IF x.r.err # "" THEN [out |-> <<>>, err |-> x.r.err, S |-> x.S]
        ELSE IF x.r.done THEN [out |-> items, err |-> "", S |-> x.S]
        ELSE collected(x.S, s, Append(items, x.r.value))

\* the record of the running operation when it ends in state x.S
LoopEntry(x) ==
    [BlankEntry(run.op, run.s, 0, run.fn, run.pre, run.prev) EXCEPT
       !.arg = run.arg, !.tr = x.S.tr]

\* a loop body that gives the reducer the initial value every time
LoopBody_forgets(x) ==
    LET callsBack == run.op \in {"reduce", "forEach"}
        T == IF callsBack THEN Called(x.S, 0, x.r.value, run.index) ELSE x.S
        c == Return(T, run.s, Undef)
    IN  IF callsBack /\ throws(run.fn, x.r.value, run.index)
        THEN /\ src' = c.S.src
             /\ st' = c.S.st
             /\ last' = [LoopEntry(c) EXCEPT !.err = run.fn]
             /\ run' = Idle
        ELSE /\ src' = T.src
             /\ st' = T.st
             /\ run' = [run EXCEPT
                          !.tr = T.tr,
                          !.results = IF run.op = "collect" THEN Append(@, x.r.value) ELSE @,
                          !.count = IF run.op = "count" THEN @ + 1 ELSE @,
                          !.lastItem = IF run.op = "last" THEN x.r.value ELSE @,
                          !.accumulator = IF run.op = "reduce"
                                          THEN reducer(run.fn, run.arg, x.r.value, run.index) ELSE @,
                          !.index = IF callsBack THEN @ + 1 ELSE @]
             /\ UNCHANGED last

\* the body of the loop with the item of pull x: reduce and forEach call
\* their callback; when it fails the loop closes the stream with return()
\* and the operation fails
LoopBody(x) ==
    LET callsBack == run.op \in {"reduce", "forEach"}
        T == IF callsBack THEN Called(x.S, 0, x.r.value, run.index) ELSE x.S
        c == Return(T, run.s, Undef)
    IN  IF callsBack /\ throws(run.fn, x.r.value, run.index)
        THEN /\ src' = c.S.src
             /\ st' = c.S.st
             /\ last' = [LoopEntry(c) EXCEPT !.err = run.fn]
             /\ run' = Idle
        ELSE /\ src' = T.src
             /\ st' = T.st
             /\ run' = [run EXCEPT
                          !.tr = T.tr,
                          !.results = IF run.op = "collect" THEN Append(@, x.r.value) ELSE @,
                          !.count = IF run.op = "count" THEN @ + 1 ELSE @,
                          !.lastItem = IF run.op = "last" THEN x.r.value ELSE @,
                          !.accumulator = IF run.op = "reduce"
                                          THEN reducer(run.fn, @, x.r.value, run.index) ELSE @,
                          !.index = IF callsBack THEN @ + 1 ELSE @]
             /\ UNCHANGED last

\* one turn of the loop, x being the outcome of its pull: the failure, the
\* returned value, or the loop body
LoopTurn(x) ==
    /\ ~x.S.src.capped
    /\ IF x.r.err # ""
       THEN /\ src' = x.S.src
            /\ st' = x.S.st
            /\ last' = [LoopEntry(x) EXCEPT !.err = x.r.err]
            /\ run' = Idle
       ELSE IF x.r.done
       THEN /\ src' = x.S.src
            /\ st' = x.S.st
            /\ last' = [LoopEntry(x) EXCEPT
                          !.done = TRUE, !.out = run.results, !.num = run.count,
                          !.value = IF run.op = "reduce" THEN run.accumulator ELSE run.lastItem]
            /\ run' = Idle
       ELSE LoopBody(x)

\* a loop that ends normally, with what it has so far, when a pull fails
forAwait_swallows ==
    /\ run.op # ""
    /\ LET x == Pull([Now EXCEPT !.tr = run.tr], run.s)
       IN  LoopTurn([x EXCEPT !.r = IF x.r.err # "" THEN Done(Undef) ELSE @])

\* one turn of `for await (const item of this)` in the running operation
forAwait ==
    /\ run.op # ""
    /\ LoopTurn(Pull([Now EXCEPT !.tr = run.tr], run.s))

(***************************************************************************)
(* Pulls made without awaiting the earlier ones, on a stage over the root.  *)
(* The stage's iterator is an async generator: a next() made while         *)
(* its body runs is queued, and the body resumes for the oldest queued     *)
(* request when it reaches a yield.  The body runs up to `await` of the    *)
(* pull it makes on its upstream (gen = "executing") and goes on when that *)
(* pull resolves.  While pulls are made this way run is                    *)
(*   issued       the number of next() calls made on the stage             *)
(*   queue        the calls not settled yet, oldest first                  *)
(*   outstanding  the pulls made on the upstream and not resolved yet      *)
(*   settled      the calls settled, in the order they were settled, each  *)
(*                with its result                                          *)
(***************************************************************************)
Pulling(s) ==
    [op |-> "pulls", s |-> s, issued |-> 0, queue |-> <<>>, outstanding |-> 0, settled |-> <<>>]

\* the oldest queued call is settled with result r
SettleOldest(q, r) ==
    [q EXCEPT !.queue = Tail(@), !.settled = Append(@, [id |-> Head(q.queue), r |-> r])]

\* the stage kinds pulled this way: one that gathers items, one that drops
\* items, one that counts its pulls, and one that emits only after its
\* upstream ended
QueueKinds == {"pack", "filter", "take", "takeLast"}

\* the generator g of a stage, not executing, takes up the queued calls:
\* completed, it settles them all; otherwise it resumes for the oldest one
\* and either returns (pack after its final yield, lines 95-98; take when
\* count reaches n, line 351; takeLast after its last item, lines 386-388),
\* yields (the next item of takeLast) or runs to the pull on its upstream
\* (lines 86, 210, 352, 379)
RECURSIVE Drive(_, _)
Drive(q, g) ==
    LET ended == [g EXCEPT !.gen = "done", !.at = ""]
        pull == [q EXCEPT !.outstanding = @ + 1]
        after == IF g.gen = "yield" THEN g.index + 1 ELSE g.index
    IN  IF q.queue = <<>> THEN [q |-> q, g |-> g]
        ELSE IF g.gen = "done" THEN Drive(SettleOldest(q, Done(Undef)), g)
        ELSE CASE g.kind = "pack" ->
                    IF g.gen = "yield" /\ g.at = "tail"
                    THEN Drive(SettleOldest(q, Done(Undef)), ended)
                    ELSE [q |-> pull,
                          g |-> [g EXCEPT !.gen = "executing",
                                          !.buffer = IF g.gen = "yield" THEN <<>> ELSE @]]
               [] g.kind = "filter" ->
                    [q |-> pull, g |-> [g EXCEPT !.gen = "executing", !.index = after]]
               [] g.kind = "take" ->
                    IF takeMore(after, g.n)
                    THEN [q |-> pull, g |-> [g EXCEPT !.gen = "executing", !.index = after]]
                    ELSE Drive(SettleOldest(q, Done(Undef)), ended)
               [] g.kind = "takeLast" ->
                    IF g.gen = "start" THEN [q |-> pull, g |-> [g EXCEPT !.gen = "executing"]]
                    ELSE IF after < Len(g.buffer)
                    THEN Drive(SettleOldest(q, Yield(g.buffer[after + 1])),
                               [g EXCEPT !.index = after])
                    ELSE Drive(SettleOldest(q, Done(Undef)), ended)

\* the generator ends for the oldest call with result r
Ends(q, g, r) == Drive(SettleOldest(q, r), [g EXCEPT !.gen = "done", !.at = ""])

\* the generator yields v to the oldest call at site
Yields(q, g, site, v) ==
    Drive(SettleOldest(q, Yield(v)), [g EXCEPT !.gen = "yield", !.at = site])

\* the executing generator g of a pack stage receives result r of its pull
\* (lines 86-97): it fails, yields its buffer or completes, yields a full
\* buffer, or pulls again
packReceive(q, g, r) ==
    IF r.err # "" THEN Ends(q, g, Reject(r.err))
    ELSE IF r.done
    THEN IF Len(g.buffer) > 0
         THEN Yields(q, g, "tail", Arr(g.buffer))
         ELSE Ends(q, g, Done(Undef))
    ELSE LET buffer == Append(g.buffer, r.value)
         IN  IF packFull(buffer, g.n)
             THEN Yields(q, [g EXCEPT !.buffer = buffer], "loop", Arr(buffer))
             ELSE [q |-> [q EXCEPT !.outstanding = @ + 1], g |-> [g EXCEPT !.buffer = buffer]]

\* the same for filter (lines 210-215), its predicate one that does not
\* fail: an accepted item is yielded, a rejected one is followed by the
\* next pull
filterReceive(q, g, r) ==
    IF r.err # "" THEN Ends(q, g, Reject(r.err))
    ELSE IF r.done THEN Ends(q, g, Done(Undef))
    ELSE IF predicate(g.fn, r.value, g.index)
    THEN Yields(q, g, "loop", r.value)
    ELSE [q |-> [q EXCEPT !.outstanding = @ + 1], g |-> [g EXCEPT !.index = @ + 1]]

\* the same for take (lines 352-356)
takeReceive(q, g, r) ==
    IF r.err # "" THEN Ends(q, g, Reject(r.err))
    ELSE IF r.done THEN Ends(q, g, Done(Undef))
    ELSE Yields(q, g, "loop", r.value)

\* takeLast that never drops the oldest item of its window
takeLastReceive_keepsAll(q, g, r) ==
    IF r.err # "" THEN Ends(q, g, Reject(r.err))
    ELSE IF r.done
    THEN IF Len(g.buffer) > 0
         THEN Yields(q, [g EXCEPT !.index = 0], "emit", g.buffer[1])
         ELSE Ends(q, g, Done(Undef))
    ELSE [q |-> [q EXCEPT !.outstanding = @ + 1],
          g |-> [g EXCEPT !.buffer = Append(g.buffer, r.value)]]

\* the same for takeLast (lines 379-388): an item is pushed on the window
\* and the oldest one dropped when the window is over n, with no await in
\* between, and the next pull follows; when the upstream ended the first
\* item of the window is yielded, or the generator returns
takeLastReceive(q, g, r) ==
    IF r.err # "" THEN Ends(q, g, Reject(r.err))
    ELSE IF r.done
    THEN IF Len(g.buffer) > 0
         THEN Yields(q, [g EXCEPT !.index = 0], "emit", g.buffer[1])
         ELSE Ends(q, g, Done(Undef))
    ELSE LET pushed == Append(g.buffer, r.value)
             kept == IF windowOver(pushed, g.n) THEN Tail(pushed) ELSE pushed
         IN  [q |-> [q EXCEPT !.outstanding = @ + 1], g |-> [g EXCEPT !.buffer = kept]]

Receive(q, g, r) ==
    CASE g.kind = "pack" -> packReceive(q, g, r)
      [] g.kind = "filter" -> filterReceive(q, g, r)
      [] g.kind = "take" -> takeReceive(q, g, r)
      [] g.kind = "takeLast" -> takeLastReceive(q, g, r)

\* a stage that passes every next() on to its upstream at once
nextUnawaited_forwards(s) ==
    /\ run.op \in {"", "pulls"}
    /\ st[s].kind \in QueueKinds
    /\ LET q == IF run.op = "" THEN Pulling(s) ELSE run
       IN  /\ Len(q.queue) < MaxPending
           /\ q.issued < MaxPulls
           /\ run' = [q EXCEPT !.issued = @ + 1, !.queue = Append(@, q.issued + 1),
                               !.outstanding = @ + 1]
           /\ st' = [st EXCEPT ![s].gen = "executing"]
    /\ UNCHANGED <<src, last>>

\* next() on stage s, lines 42-44, by a consumer that does not await
\* the calls it made before: the call is queued, and the generator takes
\* it up at once unless it is executing
nextUnawaited(s) ==
    /\ run.op \in {"", "pulls"}
    /\ st[s].kind \in QueueKinds
    /\ LET q == IF run.op = "" THEN Pulling(s) ELSE run
           queued == [q EXCEPT !.issued = @ + 1, !.queue = Append(@, q.issued + 1)]
           x == IF st[s].gen = "executing" THEN [q |-> queued, g |-> st[s]]
                ELSE Drive(queued, st[s])
       IN  /\ Len(q.queue) < MaxPending
           /\ q.issued < MaxPulls
           /\ run' = x.q
           /\ st' = [st EXCEPT ![s] = x.g]
    /\ UNCHANGED <<src, last>>

\* the pull outstanding on the root resolves with what the source gives,
\* and the generator of the stage goes on
upstreamResolves ==
    /\ run.op = "pulls"
    /\ run.outstanding > 0
    /\ LET u == SourceNext(src)
           x == Receive([run EXCEPT !.outstanding = @ - 1], st[run.s], u.r)
       IN  /\ src' = u.src
           /\ run' = x.q
           /\ st' = [st EXCEPT ![run.s] = x.g]
    /\ UNCHANGED last

(***************************************************************************)
(* Sources.                                                                *)
(***************************************************************************)
Args == (0 - 1)..MaxArg

ArraySources == {ArraySource(Range(len)) : len \in 0..MaxLen}

\* a source of pages: shape[i] < 0 is a number, shape[i] >= 0 an array of
\* that many numbers; the numbers are 1, 2, 3, ... in order
RECURSIVE Paged(_, _)
Paged(shape, from) ==
    IF shape = <<>> THEN <<>>
    ELSE LET h == Head(shape)
         IN  IF h < 0
             THEN <<Num(from)>> \o Paged(Tail(shape), from + 1)
             ELSE <<Arr([i \in 1..h |-> Num(from + i - 1)])>> \o Paged(Tail(shape), from + h)

Shapes == UNION {[1..len -> (0 - 1)..MaxPage] : len \in 0..MaxPages}

PageSources == {ArraySource(Paged(shape, 1)) : shape \in Shapes}

\* the generators of the tests over the items 1..len, and the object with
\* a next method only
TestSources ==
    {NextOnlySource} \cup
    UNION {{ArraySource(Range(len)), FailingSource(Range(len)),
            CatchingSource(Range(len)), FinallySource(Range(len))} : len \in 0..MaxLen}

\* the values passed to return, the errors passed to throw
ReturnValues == {Undef, Num(0)}
Errors == {"erro", TestError}

\* the initial values passed to reduce
Initials == {Num(0), Num(1)}

InitWith(sources) ==
    /\ src \in sources
    /\ st = <<Root>>
    /\ run = Idle
    /\ last = NoCall

(***************************************************************************)
(* Positional stages over a finite source: streams are built over any      *)
(* stream built before, and driven in any order.                           *)
(***************************************************************************)
Room == Len(st) < MaxTree

Init == InitWith(ArraySources)

Next ==
    \/ \E s \in Streams, n \in 0..MaxArg : (n > 0 => Room) /\ take(s, n)
    \/ \E s \in Streams, n \in 1..MaxArg : Room /\ takeLast(s, n)
    \/ \E s \in Streams : first(s)
    \/ \E s \in Streams : collect(s)
    \/ forAwait

Spec == Init /\ [][Next]_vars

(***************************************************************************)
(* Grouping stages over a finite source of numbers: a chain of stages,     *)
(* each built over the one built before it and driven at its end.          *)
(***************************************************************************)
Tip == Len(st)

RoomGroup == Len(st) < MaxGroup

InitGroup == InitWith(ArraySources)

NextGroup ==
    \/ \E n \in Args : (n > 0 => RoomGroup) /\ pack(Tip, n)
    \/ \E n \in Args : (n > 0 => RoomGroup) /\ repack(Tip, n)
    \/ RoomGroup /\ flat(Tip)
    \/ next(Tip)
    \/ collect(Tip)
    \/ forAwait

SpecGroup == InitGroup /\ [][NextGroup]_vars

(***************************************************************************)
(* One repack or flat stage over a source of pages, of numbers, or of      *)
(* both.                                                                   *)
(***************************************************************************)
InitPages == InitWith(PageSources)

NoStage == Len(st) = 1

NextPages ==
    \/ \E n \in Args : (n > 0 => NoStage) /\ repack(1, n)
    \/ NoStage /\ flat(1)
    \/ \E s \in Streams : next(s)
    \/ \E s \in Streams : collect(s)
    \/ forAwait

SpecPages == InitPages /\ [][NextPages]_vars

(***************************************************************************)
(* One stage over a finite source of numbers, built with any argument.     *)
(***************************************************************************)
InitArgs == InitWith(ArraySources)

NextArgs ==
    \/ \E n \in Args : (n > 0 => NoStage) /\ pack(1, n)
    \/ \E n \in Args : (n > 0 => NoStage) /\ repack(1, n)
    \/ \E n \in Args : (n >= 0 => NoStage) /\ skip(1, n)
    \/ \E n \in Args : (n > 0 => NoStage) /\ take(1, n)
    \/ \E n \in Args : (n > 0 => NoStage) /\ takeLast(1, n)
    \/ \E s \in Streams : next(s)
    \/ \E s \in Streams : collect(s)
    \/ forAwait

SpecArgs == InitArgs /\ [][NextArgs]_vars

(***************************************************************************)
(* filter, map, pack and take, each built once, in any order, each over    *)
(* the one built before it, over the natural numbers or over a finite      *)
(* prefix of them.                                                         *)
(***************************************************************************)
\* how deeply the items of stream s are nested in arrays: 0 for numbers,
\* -1 when the items are not all alike
RECURSIVE ItemDepth(_, _, _)
ItemDepth(source, table, s) ==
    LET g == table[s]
        d == ItemDepth(source, table, g.up)
    IN  CASE g.kind = "source" ->
               IF \A i \in 1..Len(source.items) : source.items[i].k = "num" THEN 0
               ELSE 0 - 1
          [] g.kind = "pack" -> IF d >= 0 THEN d + 1 ELSE 0 - 1
          [] g.kind = "repack" -> IF d >= 1 THEN d ELSE 0 - 1
          [] g.kind = "flat" -> IF d >= 1 THEN d - 1 ELSE 0 - 1
          [] g.kind = "map" -> IF d = 0 THEN 0 ELSE 0 - 1
          [] OTHER -> d

Numbers(s) == ItemDepth(src, st, s) = 0

None(kind) == \A i \in Streams : st[i].kind # kind

InitChain == InitWith({NaturalsSource} \cup {ArraySource(Range(len)) : len \in 0..NatCap})

NextChain ==
    \/ None("filter") /\ Numbers(Tip) /\ filter(Tip, "even")
    \/ None("map") /\ Numbers(Tip) /\ map(Tip, "square")
    \/ None("pack") /\ pack(Tip, 2)
    \/ \E n \in 1..MaxArg : None("take") /\ take(Tip, n)
    \/ collect(Tip)
    \/ forAwait

SpecChain == InitChain /\ [][NextChain]_vars

(***************************************************************************)
(* The root stream alone, over each of the sources of the tests: pulled,   *)
(* terminated, given errors and collected in any order.                    *)
(***************************************************************************)
InitSource == InitWith(TestSources)

NextSource ==
    \/ next(1)
    \/ \E v \in ReturnValues : return(1, v)
    \/ \E e \in Errors : throw(1, e)
    \/ src.kind # "nextOnly" /\ collect(1)
    \/ forAwait

SpecSource == InitSource /\ [][NextSource]_vars

(***************************************************************************)
(* One stage of any kind over the root, built with valid arguments: over   *)
(* a finite source of numbers, or, for repack and flat, of pages.  The     *)
(* stage and the root are pulled, terminated and collected in any order.   *)
(***************************************************************************)
InitStage == InitWith(ArraySources \cup PageSources)

NextStage ==
    \/ \E n \in 1..MaxArg : NoStage /\ Numbers(1) /\ pack(1, n)
    \/ \E n \in 1..MaxArg : NoStage /\ repack(1, n)
    \/ NoStage /\ flat(1)
    \/ \E fn \in Transforms : NoStage /\ Numbers(1) /\ map(1, fn)
    \/ \E fn \in Predicates : NoStage /\ Numbers(1) /\ filter(1, fn)
    \/ \E n \in 0..MaxArg : NoStage /\ Numbers(1) /\ skip(1, n)
    \/ \E n \in 1..MaxArg : NoStage /\ Numbers(1) /\ take(1, n)
    \/ \E n \in 1..MaxArg : NoStage /\ Numbers(1) /\ takeLast(1, n)
    \/ \E s \in Streams : next(s)
    \/ \E s \in Streams : return(s, Undef)
    \/ \E s \in Streams : collect(s)
    \/ forAwait

SpecStage == InitStage /\ [][NextStage]_vars

(***************************************************************************)
(* A chain of stages of any kinds over a finite source of numbers, each    *)
(* built over the one built before it; the chain is driven at its end.     *)
(***************************************************************************)
InitLazy == InitWith(ArraySources)

NextLazy ==
    \/ RoomGroup /\ pack(Tip, 2)
    \/ RoomGroup /\ repack(Tip, 2)
    \/ RoomGroup /\ flat(Tip)
    \/ RoomGroup /\ Numbers(Tip) /\ map(Tip, "double")
    \/ RoomGroup /\ Numbers(Tip) /\ filter(Tip, "even")
    \/ RoomGroup /\ skip(Tip, 1)
    \/ RoomGroup /\ take(Tip, 1)
    \/ RoomGroup /\ takeLast(Tip, 1)
    \/ next(Tip)
    \/ collect(Tip)
    \/ forAwait

SpecLazy == InitLazy /\ [][NextLazy]_vars

(***************************************************************************)
(* take stages over a finite source of numbers, each built over the root;  *)
(* the root and the stages are pulled and collected in any order.          *)
(***************************************************************************)
RoomTakes == Len(st) <= MaxTakes

InitCursor == InitWith(ArraySources)

NextCursor ==
    \/ \E n \in 1..MaxArg : RoomTakes /\ take(1, n)
    \/ \E s \in Streams : next(s)
    \/ \E s \in Streams : collect(s)
    \/ forAwait

SpecCursor == InitCursor /\ [][NextCursor]_vars

(***************************************************************************)
(* Terminal operations, in any order, on the root over a finite source of  *)
(* numbers and on one take or map stage over it.                           *)
(***************************************************************************)
InitTerminal == InitWith(ArraySources)

NextTerminal ==
    \/ \E n \in 1..MaxArg : NoStage /\ take(1, n)
    \/ NoStage /\ map(1, "double")
    \/ \E s \in Streams : next(s)
    \/ \E s \in Streams : first(s)
    \/ \E s \in Streams : collect(s)
    \/ \E s \in Streams : drain(s)
    \/ \E s \in Streams : Last(s)
    \/ \E s \in Streams : count(s)
    \/ \E s \in Streams, fn \in Reducers, initialValue \in Initials : reduce(s, fn, initialValue)
    \/ \E s \in Streams, fn \in Actions : forEach(s, fn)
    \/ forAwait

SpecTerminal == InitTerminal /\ [][NextTerminal]_vars

(***************************************************************************)
(* Callbacks that fail on the item of index 1: as the transform of a map   *)
(* stage or the predicate of a filter stage over the root, as a reducer    *)
(* and as a forEach action, over a finite source of numbers.               *)
(***************************************************************************)
InitFail == InitWith(ArraySources)

NextFail ==
    \/ NoStage /\ map(1, "failAtOne")
    \/ NoStage /\ filter(1, "failAtOne")
    \/ \E s \in Streams : next(s)
    \/ \E s \in Streams : collect(s)
    \/ \E s \in Streams, initialValue \in Initials : reduce(s, "failAtOne", initialValue)
    \/ \E s \in Streams : forEach(s, "failAtOne")
    \/ forAwait

SpecFail == InitFail /\ [][NextFail]_vars

(***************************************************************************)
(* Every operation on the root over a finite source of numbers, empty or   *)
(* not, and on one stage of any kind built over it at any time.            *)
(***************************************************************************)
InitEmpty == InitWith(ArraySources)

NextEmpty ==
    \/ \E n \in 1..MaxArg : NoStage /\ pack(1, n)
    \/ \E n \in 1..MaxArg : NoStage /\ repack(1, n)
    \/ NoStage /\ flat(1)
    \/ NoStage /\ map(1, "double")
    \/ NoStage /\ filter(1, "even")
    \/ \E n \in 0..MaxArg : NoStage /\ skip(1, n)
    \/ \E n \in 1..MaxArg : NoStage /\ take(1, n)
    \/ \E n \in 1..MaxArg : NoStage /\ takeLast(1, n)
    \/ \E s \in Streams : next(s)
    \/ \E s \in Streams : first(s)
    \/ \E s \in Streams : collect(s)
    \/ \E s \in Streams : drain(s)
    \/ \E s \in Streams : Last(s)
    \/ \E s \in Streams : count(s)
    \/ \E s \in Streams, initialValue \in Initials : reduce(s, "sum", initialValue)
    \/ \E s \in Streams : forEach(s, "log")
    \/ forAwait

SpecEmpty == InitEmpty /\ [][NextEmpty]_vars

(***************************************************************************)
(* One pack stage over a finite source of numbers, or one repack stage     *)
(* over a source of pages of up to MaxWide numbers each.                   *)
(***************************************************************************)
WideShapes == UNION {[1..len -> 0..MaxWide] : len \in 1..MaxPages}

WideSources == {ArraySource(Paged(shape, 1)) : shape \in WideShapes}

InitBuffer == InitWith(ArraySources \cup WideSources)

NextBuffer ==
    \/ \E n \in 1..MaxArg : NoStage /\ Numbers(1) /\ pack(1, n)
    \/ \E n \in 1..MaxArg : NoStage /\ ~Numbers(1) /\ repack(1, n)
    \/ \E s \in Streams : next(s)
    \/ \E s \in Streams : collect(s)
    \/ forAwait

SpecBuffer == InitBuffer /\ [][NextBuffer]_vars

(***************************************************************************)
(* Failures in loop bodies: one stage over the root, a map or filter whose *)
(* callback fails, a repack or flat that may meet an item that is no       *)
(* array, or a take; pulls, collect, and reduce and forEach with a         *)
(* callback that fails.  The source is any of the sources of the tests or  *)
(* a source of pages.                                                      *)
(***************************************************************************)
InitTerminate == InitWith(TestSources \cup PageSources)

NextTerminate ==
    \/ NoStage /\ map(1, "failAtOne")
    \/ NoStage /\ filter(1, "failAtOne")
    \/ \E n \in 1..MaxArg : NoStage /\ repack(1, n)
    \/ NoStage /\ flat(1)
    \/ \E n \in 1..MaxArg : NoStage /\ take(1, n)
    \/ \E s \in Streams : next(s)
    \/ ~NoStage /\ collect(2)
    \/ \E s \in Streams : reduce(s, "failAtOne", Num(0))
    \/ \E s \in Streams : forEach(s, "failAtOne")
    \/ forAwait

SpecTerminate == InitTerminate /\ [][NextTerminate]_vars

(***************************************************************************)
(* Errors thrown into one stage of any kind over the root, between pulls.  *)
(* The source is any of the sources of the tests or a source of pages.     *)
(***************************************************************************)
InitThrow == InitWith(TestSources \cup PageSources)

NextThrow ==
    \/ \E n \in 1..MaxArg : NoStage /\ pack(1, n)
    \/ \E n \in 1..MaxArg : NoStage /\ repack(1, n)
    \/ NoStage /\ flat(1)
    \/ NoStage /\ Numbers(1) /\ map(1, "double")
    \/ NoStage /\ Numbers(1) /\ filter(1, "indexEven")
    \/ \E n \in 0..MaxArg : NoStage /\ skip(1, n)
    \/ \E n \in 1..MaxArg : NoStage /\ take(1, n)
    \/ \E n \in 1..MaxArg : NoStage /\ src.kind # "nextOnly" /\ takeLast(1, n)
    \/ \E s \in Streams : next(s)
    \/ \E s \in Streams, e \in Errors : throw(s, e)

SpecThrow == InitThrow /\ [][NextThrow]_vars

(***************************************************************************)
(* skip stages over a finite source of numbers, each built over the one    *)
(* built before it; any of the streams is pulled, the last one collected.  *)
(***************************************************************************)
InitSkip == InitWith({ArraySource(Range(len)) : len \in 0..MaxSkipLen})

NextSkip ==
    \/ \E n \in 0..MaxArg : Len(st) < 3 /\ skip(Tip, n)
    \/ \E s \in Streams : next(s)
    \/ collect(Tip)
    \/ forAwait

SpecSkip == InitSkip /\ [][NextSkip]_vars

(***************************************************************************)
(* A pack, filter, take or takeLast stage over the root over a finite      *)
(* source of numbers, pulled by a consumer that does not await its earlier *)
(* pulls.                                                                  *)
(***************************************************************************)
InitQueue == InitWith(ArraySources)

NextQueue ==
    \/ \E n \in 1..MaxArg : NoStage /\ pack(1, n)
    \/ \E fn \in Predicates : NoStage /\ filter(1, fn)
    \/ \E n \in 1..MaxArg : NoStage /\ take(1, n)
    \/ \E n \in 1..MaxArg : NoStage /\ takeLast(1, n)
    \/ ~NoStage /\ nextUnawaited(2)
    \/ upstreamResolves

SpecQueue == InitQueue /\ [][NextQueue]_vars

(***************************************************************************)
(* Properties.                                                             *)
(***************************************************************************)
\* the items a source in state x has still to yield
Rest(x) ==
    IF x.src.state = "done" THEN <<>>
    ELSE SubSeq(x.src.items, x.src.pos + 1, Len(x.src.items))

\* the first and the last k items of xs
FirstOf(xs, k) == SubSeq(xs, 1, Min(k, Len(xs)))
LastOf(xs, k) == SubSeq(xs, Len(xs) - Min(k, Len(xs)) + 1, Len(xs))

Ceil(a, b) == (a + b - 1) \div b

\* xs cut into groups of g, the last one possibly shorter
Groups(xs, g) ==
    [i \in 1..Ceil(Len(xs), g) |-> Arr(SubSeq(xs, (i - 1) * g + 1, Min(i * g, Len(xs))))]

RECURSIVE Flatten(_)
Flatten(groups) ==
    IF groups = <<>> THEN <<>> ELSE Head(groups).a \o Flatten(Tail(groups))

\* how many times stream s was asked for an item in trace tr
Pulls(tr, s) == Cardinality({i \in 1..Len(tr) : tr[i] = [c |-> "next", s |-> s]})

\* the call made last has returned (no loop is running) and was op
Returned(op) == run.op = "" /\ last.op = op /\ last.err = ""

\* the call made last was made on a stage of this kind, built over stream
\* up and not driven before
OnFresh(kind, up) ==
    /\ last.s \in 2..Len(last.pre.st)
    /\ last.pre.st[last.s].kind = kind
    /\ last.pre.st[last.s].gen = "start"
    /\ last.pre.st[last.s].up = up

\* the call made last was made on the stream that take(0), called on the
\* root just before, handed back
OnTakeZero == last.s = 1 /\ last.prev.same = 1

\* what consuming take(n) of the root, then pulling the root, must give
TakeGives(n) ==
    LET rest == Rest(last.pre)
    IN  /\ last.out = FirstOf(rest, n)
        /\ Pull(Now, 1).r = IF n < Len(rest) THEN Yield(rest[n + 1]) ELSE Done(Undef)

C3_PackGroups ==
    (Returned("collect") /\ OnFresh("pack", 1)) =>
        LET rest == Rest(last.pre)
            g == last.pre.st[last.s].n
            k == Len(last.out)
        IN  /\ last.out = Groups(rest, g)
            /\ k = Ceil(Len(rest), g)
            /\ \A i \in 1..(k - 1) : Len(last.out[i].a) = g
            /\ k > 0 => Len(last.out[k].a) = IF Len(rest) % g = 0 THEN g ELSE Len(rest) % g
            /\ Len(rest) = 0 => last.out = <<>>

C3_Witness ==
    /\ Returned("collect") /\ OnFresh("pack", 1)
    /\ last.out = <<Arr(<<Num(1), Num(2)>>), Arr(<<Num(3)>>)>>

\* the call made last was made on a fresh stage of this kind over a fresh
\* pack stage over the root
OnFreshOverPack(kind) ==
    /\ last.s \in 3..Len(last.pre.st)
    /\ last.pre.st[last.s].kind = kind
    /\ last.pre.st[last.s].gen = "start"
    /\ last.pre.st[last.s].up \in 2..Len(last.pre.st)
    /\ last.pre.st[last.pre.st[last.s].up].kind = "pack"
    /\ last.pre.st[last.pre.st[last.s].up].gen = "start"
    /\ last.pre.st[last.pre.st[last.s].up].up = 1

\* C4: collecting pack(n).flat() of the root gives the items the source had
\* left, in their order
C4_FlatUndoesPack ==
    (Returned("collect") /\ OnFreshOverPack("flat")) => last.out = Rest(last.pre)

C4_Witness ==
    /\ Returned("collect") /\ OnFreshOverPack("flat")
    /\ last.pre.st[2].n = 2
    /\ last.out = Range(3)

\* C5: collecting pack(j).repack(k) of the root gives groups of length k,
\* the last one possibly shorter, whose flattening is that of pack(j): the
\* items the source had left
C5_RepackRegroups ==
    (Returned("collect") /\ OnFreshOverPack("repack")) =>
        LET rest == Rest(last.pre)
            k == last.pre.st[last.s].n
            j == last.pre.st[last.pre.st[last.s].up].n
        IN  /\ \A i \in 1..(Len(last.out) - 1) : Len(last.out[i].a) = k
            /\ Len(last.out) > 0 =>
                  /\ Len(last.out[Len(last.out)].a) >= 1
                  /\ Len(last.out[Len(last.out)].a) <= k
            /\ Flatten(last.out) = Flatten(Groups(rest, j))
            /\ Flatten(last.out) = rest

C5_Witness ==
    /\ Returned("collect") /\ OnFreshOverPack("repack")
    /\ last.pre.st[2].n = 1
    /\ last.out = <<Arr(<<Num(1), Num(2)>>), Arr(<<Num(3)>>)>>

\* C6: collecting takeLast(n) of the root gives the last min(n, L) items the
\* source had left, in their order, nothing when the source was exhausted,
\* and leaves the source exhausted
C6_TakeLastWindow ==
    (Returned("collect") /\ OnFresh("takeLast", 1)) =>
        /\ last.out = LastOf(Rest(last.pre), last.pre.st[last.s].n)
        /\ last.pre.src.state = "done" => last.out = <<>>
        /\ Rest(Now) = <<>>
        /\ Pull(Now, 1).r = Done(Undef)

C6_Witness ==
    /\ Returned("collect") /\ OnFresh("takeLast", 1)
    /\ last.out = <<Num(2), Num(3)>>
    /\ last.pre.src.pos = 0

C6_WitnessExhausted ==
    /\ Returned("collect") /\ OnFresh("takeLast", 1)
    /\ last.pre.src.state = "done"
    /\ Len(last.pre.src.items) > 0

\* C7: first() pulls its stream exactly once and returns what that pull
\* gave: on the root, the next item the source had left (undefined when
\* none), leaving the items after it, which a following collect() returns
C7_FirstPullsOnce ==
    /\ (run.op = "" /\ last.op = "first") =>
          /\ Pulls(last.tr, last.s) = 1
          /\ last.tr[1] = [c |-> "next", s |-> last.s]
          /\ last.s = 1 =>
                /\ last.err = ""
                /\ last.tr = <<[c |-> "next", s |-> 1]>>
                /\ last.value = IF Rest(last.pre) = <<>> THEN Undef ELSE Head(Rest(last.pre))
                /\ Rest(Now) = IF Rest(last.pre) = <<>> THEN <<>> ELSE Tail(Rest(last.pre))
    /\ (Returned("collect") /\ last.s = 1) => last.out = Rest(last.pre)

C7_Witness ==
    /\ run.op = "" /\ last.op = "first" /\ last.s = 1
    /\ last.pre.src.pos = 1
    /\ last.value = Num(2)
    /\ Rest(Now) = <<Num(3)>>

\* in state x the streams are the root and, each over the one before and
\* none driven yet, filter(even), map(square), pack(2) and take(k), and the
\* source, not yet pulled, has at least 4k items
Pipeline(x, k) ==
    /\ Len(x.st) = 5
    /\ x.st[2].kind = "filter" /\ x.st[2].fn = "even" /\ x.st[2].up = 1
    /\ x.st[3].kind = "map" /\ x.st[3].fn = "square" /\ x.st[3].up = 2
    /\ x.st[4].kind = "pack" /\ x.st[4].n = 2 /\ x.st[4].up = 3
    /\ x.st[5].kind = "take" /\ x.st[5].n = k /\ x.st[5].up = 4
    /\ \A i \in 2..5 : x.st[i].gen = "start"
    /\ x.src.pos = 0 /\ x.src.state = "start"
    /\ x.src.kind = "naturals" \/ Len(x.src.items) >= 4 * k

\* the first k pairs of squares of even numbers
EvenSquares(k) ==
    [i \in 1..k |-> Arr(<<Num((4 * i - 2) * (4 * i - 2)), Num((4 * i) * (4 * i))>>)]

\* C8: over the natural numbers, or a prefix of them of at least 4k items,
\* filter(even).map(square).pack(2).take(k).collect() ends, with the first
\* k pairs of squares of even numbers: each of its first k turns adds the
\* next pair, the turn after them reports completion, and no turn pulls the
\* source beyond its item 4k
C8_PipelineEnds ==
    \A k \in 1..MaxArg :
        /\ (run.op = "collect" /\ run.s = 5 /\ Pipeline(run.pre, k)) =>
              LET x == Pull([Now EXCEPT !.tr = run.tr], 5)
              IN  /\ Len(run.results) <= k
                  /\ run.results = FirstOf(EvenSquares(k), Len(run.results))
                  /\ x.r.err = ""
                  /\ x.r.done <=> Len(run.results) = k
                  /\ ~x.S.src.capped
                  /\ x.S.src.pos <= 4 * k
        /\ (run.op = "" /\ last.op = "collect" /\ last.s = 5 /\ Pipeline(last.pre, k)) =>
              /\ last.err = ""
              /\ last.out = EvenSquares(k)
              /\ src.pos = 4 * k

C8_Witness ==
    /\ Returned("collect") /\ last.s = 5 /\ Pipeline(last.pre, 2)
    /\ src.kind = "naturals"
    /\ last.out = <<Arr(<<Num(4), Num(16)>>), Arr(<<Num(36), Num(64)>>)>>

\* the arguments a combinator refuses
Invalid(op, n) ==
    \/ op \in {"pack", "repack", "takeLast"} /\ n <= 0
    \/ op \in {"skip", "take"} /\ n < 0

\* C9: pack(g), repack(g) with g <= 0, takeLast(n) with n <= 0, skip(n) and
\* take(n) with n < 0 fail with a RangeError at the call, which builds no
\* stage and pulls nothing; a collect() on the stream after it gives every
\* item the source had left
C9_RefusedAtCall ==
    /\ last.op \in {"pack", "repack", "takeLast", "skip", "take"} =>
          (last.err = "RangeError" <=> Invalid(last.op, last.n))
    /\ (run.op = "" /\ last.err = "RangeError") =>
          /\ last.ret = 0
          /\ last.tr = <<>>
          /\ st = last.pre.st
          /\ src = last.pre.src
    /\ (Returned("collect") /\ last.prev.refused /\ last.s = 1) => last.out = Rest(last.pre)

C9_Witness ==
    /\ Returned("collect") /\ last.prev.refused /\ last.s = 1
    /\ last.pre.src.pos = 0
    /\ Len(last.out) = 3

\* C10: a pull on a repack or flat stage over the root fails with a
\* TypeError exactly when an item that is no array is among those the pull
\* receives from the source; that item is then the last one received, the
\* ones received before it in the pull are arrays; building the stage
\* neither fails that way nor pulls
C10_ShapeErrorAtPull ==
    /\ (run.op = "" /\ last.op = "next" /\ last.s = 2
          /\ last.pre.st[2].kind \in {"repack", "flat"}) =>
          LET items == src.items
              from == last.pre.src.pos
              to == src.pos
          IN  /\ last.err \in {"", "TypeError"}
              /\ last.err = "TypeError" <=> \E j \in (from + 1)..to : items[j].k # "arr"
              /\ last.err = "TypeError" =>
                    /\ to > from
                    /\ items[to].k # "arr"
                    /\ \A j \in (from + 1)..(to - 1) : items[j].k = "arr"
    /\ (run.op = "" /\ last.op \in {"repack", "flat"}) =>
          /\ last.err # "TypeError"
          /\ last.tr = <<>>
          /\ src = last.pre.src

C10_Witness ==
    /\ run.op = "" /\ last.op = "next" /\ last.s = 2
    /\ last.pre.st[2].kind = "flat"
    /\ last.pre.st[2].gen = "yield"
    /\ last.err = "TypeError"

C10_WitnessRepack ==
    /\ run.op = "" /\ last.op = "next" /\ last.s = 2
    /\ last.pre.st[2].kind = "repack"
    /\ last.pre.st[2].gen = "yield"
    /\ last.err = "TypeError"

\* the call made last has ended and was op on stream s
Ended(op, s) == run.op = "" /\ last.op = op /\ last.s = s

C11_WitnessNoReturn ==
    /\ Ended("return", 1)
    /\ last.pre.src.kind = "nextOnly" /\ last.pre.src.pos = 1
    /\ last.arg = Num(0)

C11_WitnessForwarded ==
    /\ Ended("return", 1)
    /\ last.pre.src.kind = "array" /\ last.pre.src.pos = 1
    /\ last.value = Num(0)

\* C12: throw(e) on the root over a source with a throw method gives what
\* the source makes of e: a generator suspended inside try/catch yields the
\* -1 of its catch block and the pulls after it give what follows the try
\* statement, then completion; any other generator fails with e and is
\* completed; over a source without a throw method the call fails with e
\* and leaves the source as it was
C12_ThrowForwards ==
    Ended("throw", 1) =>
        LET was == last.pre.src
            result == [done |-> last.done, value |-> last.value, err |-> last.err]
        IN  /\ last.tr = <<[c |-> "throw", s |-> 1]>>
            /\ was.kind = "nextOnly" => result = Reject(last.e) /\ src = was
            /\ (was.kind = "catching" /\ was.state = "yield") =>
                  /\ result = Yield(Num(0 - 1))
                  /\ src.pos = was.pos
                  /\ LET a == Pull(Now, 1)
                     IN  /\ a.r = Yield(Num(Len(was.items) + 1))
                         /\ Pull(a.S, 1).r = Done(Undef)
            /\ (was.kind = "finally" /\ was.state = "yield") =>
                  /\ result = Yield(Num(0 - 1))
                  /\ Pull(Now, 1).r = Reject(last.e)
            /\ (was.kind # "nextOnly" /\ ~(was.kind \in {"catching", "finally"} /\ was.state = "yield")) =>
                  /\ result = Reject(last.e)
                  /\ src.state = "done" /\ src.pos = was.pos
                  /\ Pull(Now, 1).r = Done(Undef)

C12_Witness ==
    /\ Ended("throw", 1)
    /\ last.pre.src.kind = "catching" /\ last.pre.src.pos = 2
    /\ Len(src.items) = 2
    /\ ~last.done /\ last.value = Num(0 - 1) /\ last.err = ""

C12_WitnessNoThrow ==
    /\ Ended("throw", 1)
    /\ last.pre.src.kind = "nextOnly" /\ last.pre.src.pos = 1
    /\ last.err = "erro"

\* the call made last was a return on the stage over the root, which ended
\* without failing
StageReturned == Ended("return", 2) /\ last.err = ""

\* C13 as claimed: return on a stage of any kind, at any point of its life,
\* reaches the root, which reports completion from then on
C13_AtAnyPoint ==
    StageReturned =>
        /\ \E i \in 1..Len(last.tr) : last.tr[i] = [c |-> "return", s |-> 1]
        /\ Pull(Now, 1).r = Done(Undef)

\* the stage is suspended after emitting from inside its loop over its
\* upstream: a map, filter, flat or skip stage that has emitted, a pack or
\* repack stage that has emitted a group other than its final partial one
SuspendedInLoop(g) ==
    /\ g.gen = "yield"
    /\ \/ g.kind \in {"map", "filter", "flat", "skip"}
       \/ g.kind \in {"pack", "repack"} /\ g.at # "tail"

\* C13 amended: return on a stage suspended after emitting from inside its
\* loop over the root is passed on to the root once, the source is
\* completed and the root reports completion from then on; return on any
\* other stage (never pulled, completed, take, takeLast, pack or repack
\* after its final partial group) completes the stage alone and leaves the
\* root and the source as they were
C13_ReturnFromLoop ==
    StageReturned =>
        /\ st[2].gen = "done"
        /\ last.done /\ last.value = Undef
        /\ Pull(Now, 2).r = Done(Undef)
        /\ IF SuspendedInLoop(last.pre.st[2])
           THEN /\ last.tr = <<[c |-> "return", s |-> 2], [c |-> "return", s |-> 1]>>
                /\ src.state = "done" /\ src.pos = last.pre.src.pos
                /\ Pull(Now, 1).r = Done(Undef)
           ELSE /\ last.tr = <<[c |-> "return", s |-> 2]>>
                /\ src = last.pre.src

C13_Witness ==
    /\ StageReturned
    /\ last.pre.st[2].kind = "map" /\ last.pre.st[2].gen = "yield"
    /\ Len(Rest(last.pre)) = 2
    /\ src.state = "done"

C13_WitnessNeverPulled ==
    /\ StageReturned
    /\ last.pre.st[2].kind = "filter" /\ last.pre.st[2].gen = "start"
    /\ Len(Rest(Now)) = 3

C13_WitnessTake ==
    /\ StageReturned
    /\ last.pre.st[2].kind = "take" /\ last.pre.st[2].gen = "yield"
    /\ Len(Rest(Now)) = 2

Builders == {"pack", "repack", "flat", "map", "filter", "skip", "take", "takeLast"}

\* in this step a combinator is called
Building == last' # last /\ last'.op \in Builders

\* in this step the source or a stream built before it moves
Moving == src' # src \/ \E i \in 1..Len(st) : st'[i] # st[i]

\* the calls made on streams in this step
StepTrace == IF run.op # "" THEN SubSeq(run'.tr \o last'.tr, Len(run.tr) + 1, Len(run'.tr \o last'.tr))
             ELSE last'.tr

\* C14: a call of a combinator, on the root or at the end of a chain of
\* stages, makes no call on any stream and calls no callback: it leaves the
\* source and every stream built before as they were and adds a stage
\* that has not started; the source and the stages move only in a step
\* of a consumer, a pull or a turn of a terminal operation, whose first
\* call is a pull on the stream it consumes
C14_LazyStep ==
    /\ Building =>
          /\ last'.tr = <<>>
          /\ src' = src
          /\ ~Moving
          /\ Len(st') = Len(st) + 1
          /\ st'[Len(st')].gen = "start"
          /\ st'[Len(st')].index = 0 /\ st'[Len(st')].buffer = <<>>
    /\ Moving =>
          /\ ~Building
          /\ run.op # "" \/ last'.op = "next"
          /\ StepTrace # <<>>
          /\ StepTrace[1] = [c |-> "next", s |-> IF run.op # "" THEN run.s ELSE last'.s]

C14_Lazy == [][C14_LazyStep]_vars

C14_Witness ==
    /\ run.op = "" /\ last.op = "map" /\ last.tr = <<>>
    /\ Len(st) = 3 /\ st[2].kind = "filter" /\ st[2].gen = "start" /\ st[3].gen = "start"
    /\ Len(src.items) = 3 /\ src.pos = 0 /\ src.state = "start"

C14_WitnessPulled ==
    /\ run.op = "" /\ last.op = "next" /\ last.s = 3
    /\ last.pre.st[3].kind = "map" /\ last.pre.st[2].kind = "filter"
    /\ last.pre.src.pos = 0 /\ src.pos = 2
    /\ Len(last.tr) = 7

\* the items the call made last gave its caller
Delivered ==
    IF last.op = "collect" THEN last.out
    ELSE IF last.done \/ last.err # "" THEN <<>>
    ELSE <<last.value>>

\* C15: over the root and take stages built on it, pulled and collected in
\* any order, every call gives its caller exactly the items it made the
\* source yield, in their order: the items at the source's position before
\* the call and after it, each pulled from the source by one pull; so no
\* item is given twice or to two streams, and none is lost between them
C15_SharedCursor ==
    /\ (run.op = "" /\ last.op \in {"next", "collect"}) =>
          LET from == last.pre.src.pos
              to == src.pos
          IN  /\ last.err = ""
              /\ src.items = last.pre.src.items
              /\ from <= to
              /\ Delivered = SubSeq(src.items, from + 1, to)
              /\ Pulls(last.tr, 1) \in {to - from, to - from + 1}
              /\ last.op = "next" => to - from = IF last.done THEN 0 ELSE 1
    /\ run.op = "collect" => run.results = SubSeq(src.items, run.pre.src.pos + 1, src.pos)

C15_Witness ==
    /\ Returned("collect") /\ last.s = 1
    /\ Len(st) = 3 /\ st[2].gen = "done" /\ st[3].gen = "done"
    /\ st[2].index = 1 /\ st[3].index = 1
    /\ last.pre.src.pos = 2
    /\ last.out = <<Num(3)>>

C15_WitnessInterleaved ==
    /\ run.op = "" /\ last.op = "next" /\ last.s = 3
    /\ st[2].gen = "yield" /\ st[2].n = 2
    /\ last.pre.src.pos = 2 /\ last.value = Num(3)

\* C16: collect() on the root over a sequence of items returns the items
\* the source had left, in their order: all of them, or none for an empty
\* sequence, when the stream had not been pulled; over a source that fails
\* after its items it fails with the source's error and returns nothing
C16_CollectAll ==
    Ended("collect", 1) =>
        LET was == last.pre.src
        IN  /\ was.kind = "array" =>
                  /\ last.err = "" /\ last.done
                  /\ last.out = Rest(last.pre)
                  /\ (was.pos = 0 /\ was.state = "start") => last.out = was.items
            /\ (was.kind = "failing" /\ was.state # "done") =>
                  /\ last.err = TestError
                  /\ ~last.done /\ last.out = <<>>
                  /\ src.pos = Len(src.items)
            /\ (was.kind = "failing" /\ was.state = "done") =>
                  /\ last.err = "" /\ last.out = <<>>

C16_Witness ==
    /\ Ended("collect", 1)
    /\ last.pre.src.kind = "failing" /\ last.pre.src.pos = 0
    /\ Len(src.items) = 2
    /\ last.err = TestError

C16_WitnessAll ==
    /\ Ended("collect", 1)
    /\ last.pre.src.kind = "array" /\ last.pre.src.state = "start"
    /\ last.out = Range(3)

C16_WitnessEmpty ==
    /\ Ended("collect", 1)
    /\ last.pre.src.kind = "array" /\ last.pre.src.state = "start"
    /\ src.items = <<>> /\ last.done

\* state x is that of a root just constructed over a source not started
Fresh(x) == Len(x.st) = 1 /\ x.src.pos = 0 /\ x.src.state = "start"

\* C17: count() on a stream returns the length of what collect() returns
\* on a stream in the same state; for the root just constructed over a
\* source of L items both are L
C17_CountIsLength ==
    /\ Returned("count") =>
          LET other == collected(last.pre, last.s, <<>>)
          IN  /\ other.err = ""
              /\ last.num = Len(other.out)
              /\ (Fresh(last.pre) /\ last.s = 1) =>
                    /\ last.num = Len(src.items)
                    /\ Len(other.out) = Len(src.items)
    /\ (Returned("collect") /\ Fresh(last.pre) /\ last.s = 1) => Len(last.out) = Len(src.items)

C17_Witness ==
    /\ Returned("count") /\ last.s = 1 /\ Fresh(last.pre)
    /\ last.num = 3
    /\ collected(last.pre, 1, <<>>).out = Range(3)

TerminalOps == {"collect", "drain", "last", "count", "reduce", "forEach"}

\* stream s gives nothing more in state x: a pull reports completion with
\* no value, and a loop over it ends at once, normally and with no item
Exhausted(x, s) ==
    /\ Pull(x, s).r = Done(Undef)
    /\ collected(x, s, <<>>).out = <<>>
    /\ collected(x, s, <<>>).err = ""

\* C18: when collect, drain, last, count, reduce or forEach returns, the
\* stream it ran on is exhausted; and on a stream that is exhausted each of
\* them returns its empty result: collect an empty array, last undefined,
\* count 0, reduce its initial value, drain and forEach nothing, without
\* calling any callback
C18_LeftExhausted ==
    /\ (run.op = "" /\ last.op \in TerminalOps /\ last.err = "") =>
          /\ last.done
          /\ Exhausted(Now, last.s)
    /\ (run.op = "" /\ last.op \in TerminalOps /\ Exhausted(last.pre, last.s)) =>
          /\ last.err = "" /\ last.done
          /\ last.out = <<>>
          /\ last.num = 0
          /\ last.value = IF last.op = "reduce" THEN last.arg ELSE Undef
          /\ \A i \in 1..Len(last.tr) : last.tr[i].c # "call"

C18_Witness ==
    /\ Returned("reduce") /\ last.s = 1 /\ Fresh(last.pre)
    /\ last.fn = "digits" /\ last.value = Num(123)
    /\ Exhausted(Now, 1)

C18_WitnessLater ==
    /\ Returned("last") /\ last.s = 1
    /\ last.pre.src.pos = 3 /\ Exhausted(last.pre, 1)
    /\ last.value = Undef

C18_WitnessStage ==
    /\ Returned("drain") /\ last.s = 2
    /\ last.pre.st[2].kind = "take" /\ last.pre.st[2].gen = "start"
    /\ Len(Rest(Now)) = 2
    /\ Exhausted(Now, 2)

\* C19: collecting skip(n) of the root, n >= 0, ends normally with the
\* items the source had left from position n on, in their order: none
\* when at most n were left, all of them when n = 0
C19_SkipDrops ==
    (Ended("collect", last.s) /\ OnFresh("skip", 1)) =>
        LET rest == Rest(last.pre)
            n == last.pre.st[last.s].n
        IN  /\ n >= 0
            /\ last.err = ""
            /\ last.out = SubSeq(rest, n + 1, Len(rest))
            /\ Len(rest) <= n => last.out = <<>>
            /\ n = 0 => last.out = rest
            /\ Rest(Now) = <<>>

C19_Witness ==
    /\ Returned("collect") /\ OnFresh("skip", 1)
    /\ last.pre.st[last.s].n = 1
    /\ last.pre.src.pos = 0
    /\ last.out = <<Num(2), Num(3)>>

C19_WitnessShort ==
    /\ Returned("collect") /\ OnFresh("skip", 1)
    /\ last.pre.st[last.s].n = 2
    /\ Len(Rest(last.pre)) = 2
    /\ last.out = <<>>

C19_WitnessZero ==
    /\ Returned("collect") /\ OnFresh("skip", 1)
    /\ last.pre.st[last.s].n = 0
    /\ last.out = Range(3)

\* the callback calls of a trace, in their order
IsCall(e) == e.c = "call"
Calls(tr) == SelectSeq(tr, IsCall)

\* the items of xs that predicate fn accepts, xs[1] having index `index`
RECURSIVE Accepted(_, _, _)
Accepted(xs, fn, index) ==
    IF xs = <<>> THEN <<>>
    ELSE (IF predicate(fn, Head(xs), index) THEN <<Head(xs)>> ELSE <<>>)
         \o Accepted(Tail(xs), fn, index + 1)

\* C20: collecting filter(predicate) of the root ends normally having
\* called the predicate once for each item the source had left, in their
\* order, with indices 0, 1, 2, ... whether the item was accepted or not,
\* and gives the accepted items in their order
C20_FilterCalls ==
    (Ended("collect", last.s) /\ OnFresh("filter", 1)) =>
        LET rest == Rest(last.pre)
            fn == last.pre.st[last.s].fn
        IN  /\ last.err = ""
            /\ Calls(last.tr) =
                  [i \in 1..Len(rest) |->
                     [c |-> "call", s |-> last.s, item |-> rest[i], index |-> i - 1]]
            /\ last.out = Accepted(rest, fn, 0)

C20_Witness ==
    /\ Returned("collect") /\ OnFresh("filter", 1)
    /\ last.pre.st[last.s].fn = "indexEven"
    /\ last.pre.src.pos = 0
    /\ last.out = <<Num(1), Num(3)>>

C20_WitnessRejected ==
    /\ Returned("collect") /\ OnFresh("filter", 1)
    /\ last.pre.st[last.s].fn = "even"
    /\ last.pre.src.pos = 0
    /\ last.out = <<Num(2)>>
    /\ Len(Calls(last.tr)) = 3

\* the pulls on the root and the callback calls of a trace, in their order
RootPullOrCall(e) == e.c = "call" \/ (e.c = "next" /\ e.s = 1)
RootPullsAndCalls(tr) == SelectSeq(tr, RootPullOrCall)

\* C21: collecting map(transform) of the root, when no call of transform
\* fails, gives one value per item the source had left, in their order:
\* value i is transform(item i, i), i counted from 0 over the items the
\* stage receives; the calls of transform and the pulls on the root
\* alternate, the call for an item coming before the pull of the next
C21_MapInOrder ==
    (Returned("collect") /\ OnFresh("map", 1)) =>
        LET rest == Rest(last.pre)
            fn == last.pre.st[last.s].fn
            events == RootPullsAndCalls(last.tr)
        IN  /\ Len(last.out) = Len(rest)
            /\ \A i \in 1..Len(rest) : last.out[i] = transform(fn, rest[i], i - 1)
            /\ Calls(last.tr) =
                  [i \in 1..Len(rest) |->
                     [c |-> "call", s |-> last.s, item |-> rest[i], index |-> i - 1]]
            /\ Len(events) = 2 * Len(rest) + 1
            /\ \A i \in 1..Len(events) : (events[i].c = "call") <=> (i % 2 = 0)

C21_Witness ==
    /\ Returned("collect") /\ OnFresh("map", 1)
    /\ last.pre.st[last.s].fn = "doublePlusIndex"
    /\ last.pre.src.pos = 0
    /\ last.out = <<Num(2), Num(5), Num(8)>>

\* C22: a callback that fails on the item of index 1 makes the pull or the
\* terminal operation that called it fail with the callback's own error,
\* after one call for that item.  On a map or filter stage the pull
\* before it gave item 0 normally, and after the failure the stage is
\* completed: a further pull reports completion and calls nothing.
\* reduce and forEach fail after calling the callback for items 0 and 1
\* and pull nothing more; collect on the stage fails with the same error
C22_CallbackFailure ==
    /\ (Ended("next", 2) /\ last.pre.st[2].gen # "done") =>
          LET g == last.pre.st[2]
              index == IF g.gen = "start" THEN 0 ELSE g.index + 1
              got == src.pos > last.pre.src.pos
          IN  /\ last.err \in {"", "failAtOne"}
              /\ last.err = "failAtOne" <=> (got /\ index = 1)
              /\ (got /\ index = 0) => ~last.done /\ last.value = src.items[src.pos]
              /\ last.err = "failAtOne" =>
                    /\ Calls(last.tr) =
                          <<[c |-> "call", s |-> 2, item |-> src.items[src.pos], index |-> 1]>>
                    /\ src.pos = last.pre.src.pos + 1
                    /\ st[2].gen = "done"
                    /\ Pull(Now, 2).r = Done(Undef)
                    /\ Pull(Now, 2).S.tr = <<[c |-> "next", s |-> 2]>>
    /\ (run.op = "" /\ last.op \in {"reduce", "forEach"} /\ last.s = 1) =>
          LET rest == Rest(last.pre)
          IN  /\ last.err = IF Len(rest) >= 2 THEN "failAtOne" ELSE ""
              /\ last.err = "failAtOne" =>
                    /\ ~last.done
                    /\ Calls(last.tr) =
                          <<[c |-> "call", s |-> 0, item |-> rest[1], index |-> 0],
                            [c |-> "call", s |-> 0, item |-> rest[2], index |-> 1]>>
                    /\ src.pos = last.pre.src.pos + 2
    /\ (Ended("collect", 2) /\ last.pre.st[2].gen = "start") =>
          last.err = IF Len(Rest(last.pre)) >= 2 THEN "failAtOne" ELSE ""
    /\ (run.op = "collect" /\ run.s = 2 /\ run.pre.st[2].gen = "start") =>
          /\ Len(run.results) <= 1
          /\ run.results = FirstOf(Rest(run.pre), Len(run.results))
          /\ src.pos - run.pre.src.pos = Len(run.results)

C22_Witness ==
    /\ Ended("next", 2) /\ last.err = "failAtOne"
    /\ last.pre.st[2].kind = "map" /\ last.pre.st[2].gen = "yield"
    /\ Len(src.items) = 3 /\ src.pos = 2

C22_WitnessFilter ==
    /\ Ended("collect", 2) /\ last.err = "failAtOne"
    /\ last.pre.st[2].kind = "filter" /\ last.pre.st[2].gen = "start"
    /\ last.pre.src.pos = 1

C22_WitnessReduce ==
    /\ Ended("reduce", 1) /\ last.err = "failAtOne"
    /\ last.pre.src.pos = 0 /\ Len(src.items) = 3

C22_WitnessForEach ==
    /\ Ended("forEach", 1) /\ last.err = "failAtOne"
    /\ last.pre.src.pos = 1 /\ Len(src.items) = 3

\* reducer fn folded from the left over xs, xs[1] having index `index`
RECURSIVE Folded(_, _, _, _)
Folded(fn, accumulator, xs, index) ==
    IF xs = <<>> THEN accumulator
    ELSE Folded(fn, reducer(fn, accumulator, Head(xs), index), Tail(xs), index + 1)

\* C23: reduce(reducer, initial) on the root, when no call of the reducer
\* fails, calls it once per item the source had left, in their order,
\* with indices 0, 1, 2, ..., each call after the pull of its item and
\* before the pull of the next, and returns the reducer folded from the
\* left over the items starting from initial: initial itself when there
\* is no item
C23_ReduceFolds ==
    (Returned("reduce") /\ last.s = 1) =>
        LET rest == Rest(last.pre)
            events == RootPullsAndCalls(last.tr)
        IN  /\ last.value = Folded(last.fn, last.arg, rest, 0)
            /\ rest = <<>> => last.value = last.arg
            /\ Calls(last.tr) =
                  [i \in 1..Len(rest) |->
                     [c |-> "call", s |-> 0, item |-> rest[i], index |-> i - 1]]
            /\ Len(events) = 2 * Len(rest) + 1
            /\ \A i \in 1..Len(events) : (events[i].c = "call") <=> (i % 2 = 0)

C23_Witness ==
    /\ Returned("reduce") /\ last.s = 1
    /\ last.fn = "digits" /\ last.arg = Num(1)
    /\ last.pre.src.pos = 0
    /\ last.value = Num(1123)

C23_WitnessEmpty ==
    /\ Returned("reduce") /\ last.s = 1
    /\ last.fn = "sum" /\ last.arg = Num(1)
    /\ src.items = <<>>
    /\ last.value = Num(1)

Consumers == {"next", "first"} \cup TerminalOps

\* the call made last was a pull or a terminal operation, made when the
\* source had nothing left, on the root or on a stage not started
OnEmpty ==
    /\ run.op = "" /\ last.op \in Consumers
    /\ Rest(last.pre) = <<>>
    /\ last.s = 1 \/ last.pre.st[last.s].gen = "start"

\* C24: on the root over a source that is empty or exhausted, and on a
\* stage of any kind built over it and not started, every operation ends
\* normally with its empty result: a pull and first() report completion
\* with no value, collect() returns an empty array (no group at all from
\* pack), count() 0, last() undefined, reduce() its initial value, drain()
\* and forEach() complete, and no callback is called
C24_EmptyResults ==
    OnEmpty =>
        /\ last.err = ""
        /\ last.done
        /\ last.out = <<>>
        /\ last.num = 0
        /\ last.value = IF last.op = "reduce" THEN last.arg ELSE Undef
        /\ Calls(last.tr) = <<>>
        /\ Rest(Now) = <<>>
        /\ Exhausted(Now, last.s)

C24_Witness ==
    /\ OnEmpty /\ last.op = "collect" /\ last.s = 2
    /\ last.pre.st[2].kind = "pack"
    /\ src.items = <<>>
    /\ last.out = <<>>

C24_WitnessExhausted ==
    /\ OnEmpty /\ last.op = "first" /\ last.s = 2
    /\ last.pre.st[2].kind = "takeLast"
    /\ last.pre.src.pos = 3 /\ last.pre.src.state = "done"

C24_WitnessRoot ==
    /\ OnEmpty /\ last.op = "count" /\ last.s = 1
    /\ src.items = <<>> /\ last.pre.src.state = "start"

\* what k pulls of stream s give from state S when each is awaited before
\* the next one is made, and the state they leave
RECURSIVE Sequential(_, _, _)
Sequential(S, s, k) ==
    IF k = 0 THEN [S |-> S, rs |-> <<>>]
    ELSE LET x == Pull(S, s)
             y == Sequential(x.S, s, k - 1)
         IN  [S |-> y.S, rs |-> <<x.r>> \o y.rs]

\* the stage of run.s and its source before any pull
Unpulled ==
    [src |-> ArraySource(src.items),
     st |-> [st EXCEPT ![run.s] = Stream(st[run.s].kind, 1, st[run.s].n, st[run.s].fn)],
     tr |-> <<>>]

\* C25: a pack, filter, take or takeLast stage pulled by a consumer that
\* does not await its earlier pulls never has more than one pull
\* outstanding on its upstream, and has one exactly while its generator
\* runs for the oldest unsettled pull; the pulls are settled in the order
\* they were made, with the results the same pulls give when each is
\* awaited; and the stage has taken from its source what the settled
\* pulls needed, and for the pull it is serving no more than that pull
\* needs
C25_OnePullOutstanding ==
    run.op = "pulls" =>
        LET g == st[run.s]
            k == Len(run.settled)
            awaited == Sequential(Unpulled, run.s, k)
            serving == Sequential(Unpulled, run.s, k + 1)
        IN  /\ run.outstanding <= 1
            /\ (run.outstanding = 1) <=> (g.gen = "executing")
            /\ (run.queue # <<>>) <=> (g.gen = "executing")
            /\ \A i \in 1..k : run.settled[i].id = i
            /\ run.queue = [i \in 1..Len(run.queue) |-> k + i]
            /\ k + Len(run.queue) = run.issued
            /\ [i \in 1..k |-> run.settled[i].r] = awaited.rs
            /\ g.gen # "executing" => src = awaited.S.src
            /\ g.gen = "executing" =>
                  /\ awaited.S.src.pos <= src.pos
                  /\ src.pos <= serving.S.src.pos
                  /\ src.state # "done"
                  /\ g.kind = "pack" => Len(g.buffer) < g.n

\* three pulls are queued on the stage, the first group was delivered, and
\* one pull is outstanding on the source
C25_Witness ==
    /\ run.op = "pulls"
    /\ Len(run.queue) = 3
    /\ run.outstanding = 1
    /\ Len(run.settled) = 1
    /\ ~run.settled[1].r.done
    /\ st[run.s].kind = "pack"
    /\ Len(st[run.s].buffer) = 1

\* pulls made after the source ended are settled at once, in order
C25_WitnessEnded ==
    /\ run.op = "pulls"
    /\ run.queue = <<>>
    /\ Len(run.settled) >= 4
    /\ ~run.settled[2].r.done
    /\ run.settled[3].r.done

\* the pulls a take stage in state g has made on its upstream: none before
\* it started, one for each item it emitted; a completed stage is counted
\* as having made all n
TakeUsed(g) ==
    CASE g.gen = "start" -> 0
      [] g.gen = "yield" -> g.index + 1
      [] OTHER -> g.n

\* the call made last has returned and was made on the take stage
OnTake ==
    /\ run.op = "" /\ last.op \in {"next", "collect", "return"}
    /\ last.s = 2 /\ last.pre.st[2].kind = "take"

\* C26: a take(n) stage with n > 0 makes at most n pulls on its upstream
\* over its life.  Every call on the stage makes at most the pulls that n
\* leaves after the pulls made before it, the pulls made before a
\* suspended stage being one for each item it emitted; return makes none;
\* and a call on a completed stage reports completion with no pull on the
\* upstream.  From a stage not pulled yet, n awaited pulls make at most n
\* pulls on the upstream, and the pulls after them report completion and
\* make none, whether or not the upstream has more items
C26_TakePullsAtMostN ==
    /\ \A s \in 2..Len(st) :
          (st[s].kind = "take" /\ st[s].gen = "yield") => TakeUsed(st[s]) <= st[s].n
    /\ OnTake =>
          LET g == last.pre.st[2]
              p == Pulls(last.tr, 1)
          IN  /\ p <= g.n - TakeUsed(g)
              /\ st[2].gen = "yield" => TakeUsed(st[2]) = TakeUsed(g) + p
              /\ last.op = "return" => p = 0
              /\ (g.gen = "done" /\ last.op = "next") =>
                    /\ last.done /\ last.value = Undef /\ last.err = ""
                    /\ last.tr = <<[c |-> "next", s |-> 2]>>
                    /\ src = last.pre.src
    /\ \A s \in 2..Len(st) :
          (run.op = "" /\ st[s].kind = "take" /\ st[s].gen = "start") =>
              LET early == Sequential(Now, s, st[s].n)
                  later == Sequential([early.S EXCEPT !.tr = <<>>], s, 2)
              IN  /\ Pulls(early.S.tr, 1) <= st[s].n
                  /\ later.rs = <<Done(Undef), Done(Undef)>>
                  /\ later.S.tr = <<[c |-> "next", s |-> s], [c |-> "next", s |-> s]>>
                  /\ later.S.src = early.S.src

\* take(1) emitted its one item from a source that has more, and the pull
\* made on it after that reported completion and left the source alone
C26_Witness ==
    /\ OnTake /\ last.op = "next"
    /\ last.pre.st[2].n = 1
    /\ last.pre.st[2].gen = "yield"
    /\ last.done
    /\ Rest(Now) # <<>>
    /\ src = last.pre.src

\* collect on take(2) not pulled before made exactly two pulls on a source
\* that has more items
C26_WitnessCollect ==
    /\ OnTake /\ last.op = "collect"
    /\ last.pre.st[2].n = 2
    /\ last.pre.st[2].gen = "start"
    /\ Pulls(last.tr, 1) = 2
    /\ Rest(Now) # <<>>

\* the items in the buffer of grouping stage g that it has not emitted: a
\* stage suspended at a yield inside its loop still holds the group it
\* yielded, which pack drops (line 91) and repack slices off (line 136)
\* when it is resumed
Pending(g) ==
    IF g.gen = "yield" /\ g.kind = "pack" /\ g.at = "loop" THEN <<>>
    ELSE IF g.gen = "yield" /\ g.kind = "repack" /\ g.at = "while" THEN sliceFrom(g.buffer, g.n)
    ELSE g.buffer

Grouping == {s \in 2..Len(st) : st[s].kind \in {"pack", "repack"}}

\* the length of the longest page among items
Widest(items) ==
    LET lens == {0} \cup {Len(items[i].a) : i \in {j \in 1..Len(items) : isArray(items[j])}}
    IN  CHOOSE m \in lens : \A l \in lens : l <= m

\* C27 as claimed: the buffer of a pack or repack stage holds at most
\* packageSize items not emitted yet in every state, the states in which
\* the stage is suspended after emitting a group included
C27_AtMostPackageSize ==
    \A s \in Grouping : Len(Pending(st[s])) <= st[s].n

\* C27 amended: the buffer of a pack stage never holds more than
\* packageSize items, and fewer when none of them was emitted.  The buffer
\* of a repack stage holds fewer than packageSize items whenever the stage
\* pulls its upstream, and so at most packageSize - 1 items and the
\* longest page received; suspended after emitting a group it holds that
\* group and all that is left of the pages received, which can be more
\* than packageSize items, and it emits from them, without pulling, until
\* fewer than packageSize are left
C27_BufferBounds ==
    /\ \A s \in Grouping :
          LET g == st[s]
          IN  /\ g.kind = "pack" =>
                    /\ Len(g.buffer) <= g.n
                    /\ Len(Pending(g)) < g.n
              /\ g.kind = "repack" =>
                    /\ Len(g.buffer) <= g.n - 1 + Widest(src.items)
                    /\ (g.gen = "yield" /\ g.at = "while") => Len(g.buffer) >= g.n
                    /\ (g.gen = "yield" /\ g.at = "tail") => Len(g.buffer) < g.n
    /\ (run.op = "" /\ last.op = "next" /\ last.s \in Grouping /\ last.err = "") =>
          LET g == last.pre.st[last.s]
          IN  /\ Len(Pending(g)) >= g.n =>
                    /\ Pulls(last.tr, 1) = 0
                    /\ last.value = Arr(sliceTo(Pending(g), g.n))
              /\ Pulls(last.tr, 1) > 0 => Len(Pending(g)) < g.n

\* a repack stage is suspended after emitting a group, with more than
\* packageSize items left in its buffer
C27_Witness ==
    \E s \in Grouping :
        /\ st[s].kind = "repack"
        /\ st[s].gen = "yield"
        /\ st[s].at = "while"
        /\ Len(Pending(st[s])) > st[s].n

\* a pack stage is suspended after emitting a full group
C27_WitnessPack ==
    \E s \in Grouping :
        /\ st[s].kind = "pack"
        /\ st[s].gen = "yield"
        /\ st[s].at = "loop"
        /\ Len(st[s].buffer) = st[s].n

\* the items the stage of run.s has emitted to the pulls settled so far
Emitted ==
    IF run.op # "pulls" THEN <<>>
    ELSE LET given == SelectSeq(run.settled, LAMBDA e : e.r.err = "" /\ ~e.r.done)
         IN  [i \in 1..Len(given) |-> given[i].r.value]

\* the items the source has yielded
Observed == SubSeq(src.items, 1, src.pos)

\* C28: whenever a takeLast(n) stage awaits a pull on its upstream its
\* window holds the last n items the upstream has yielded, all of them
\* when they are fewer, so never more than n, and no pull on the stage has
\* been settled; the stage emits only after the upstream reported
\* completion, the items of the window in their order; and when it has
\* completed it has emitted min(n, total) items, the last ones of the
\* upstream
C28_TrailingWindow ==
    (Len(st) = 2 /\ st[2].kind = "takeLast") =>
        LET g == st[2]
        IN  /\ Len(g.buffer) <= g.n
            /\ g.buffer = LastOf(Observed, g.n)
            /\ g.gen = "executing" =>
                  /\ run.settled = <<>>
                  /\ src.state # "done"
            /\ Emitted # <<>> => src.state = "done"
            /\ Emitted = FirstOf(g.buffer, Len(Emitted))
            /\ g.gen = "yield" => Len(Emitted) = g.index + 1
            /\ g.gen = "done" =>
                  /\ Len(Emitted) = Min(g.n, Len(src.items))
                  /\ Emitted = LastOf(src.items, g.n)

\* takeLast(2) awaits its fourth pull on a source of three items: the
\* window holds the last two of the three it has seen, nothing is emitted
C28_Witness ==
    /\ Len(st) = 2 /\ st[2].kind = "takeLast" /\ st[2].n = 2
    /\ st[2].gen = "executing"
    /\ src.pos = 3
    /\ st[2].buffer = <<Num(2), Num(3)>>
    /\ Len(run.queue) >= 2

\* takeLast(2) has completed over a source of one item, having emitted it
C28_WitnessFewer ==
    /\ Len(st) = 2 /\ st[2].kind = "takeLast" /\ st[2].n = 2
    /\ st[2].gen = "done"
    /\ Len(src.items) = 1
    /\ Emitted = <<Num(1)>>

\* the call made last was made on a skip stage over a skip stage over the
\* root, neither of them pulled before
OnTwoSkips ==
    /\ run.op = "" /\ last.op \in {"next", "collect"} /\ last.s = 3
    /\ last.pre.st[2].gen = "start"
    /\ last.pre.st[3].gen = "start"

\* the state before the call made last, with one skip(n) stage over the
\* root in place of the stages it had
WithOneSkip(n) ==
    [src |-> last.pre.src, st |-> <<Root, Stream("skip", 1, n, "")>>, tr |-> <<>>]

\* C29: collecting skip(a).skip(b) of the root, a and b >= 0, gives what
\* collecting skip(a + b) of the root in the same state gives, the items
\* the source had left from position a + b on, and leaves the source as
\* that does; and its first pull gives what the first pull of skip(a + b)
\* gives
C29_SkipsAdd ==
    OnTwoSkips =>
        LET a == last.pre.st[2].n
            b == last.pre.st[3].n
            one == WithOneSkip(a + b)
            rest == Rest(last.pre)
        IN  /\ last.err = ""
            /\ last.op = "collect" =>
                  /\ last.out = collected(one, 2, <<>>).out
                  /\ last.out = SubSeq(rest, a + b + 1, Len(rest))
                  /\ src = collected(one, 2, <<>>).S.src
            /\ last.op = "next" =>
                  /\ [done |-> last.done, value |-> last.value] =
                        [done |-> Pull(one, 2).r.done, value |-> Pull(one, 2).r.value]
                  /\ src = Pull(one, 2).S.src

\* skip(1).skip(2) of the root over 1..5 was collected and gave [4, 5]
C29_Witness ==
    /\ OnTwoSkips /\ last.op = "collect"
    /\ last.pre.st[2].n = 1
    /\ last.pre.st[3].n = 2
    /\ last.pre.src.pos = 0
    /\ Len(src.items) = 5
    /\ last.out = <<Num(4), Num(5)>>

\* the two skips together ask for more items than the source has left
C29_WitnessShort ==
    /\ OnTwoSkips /\ last.op = "collect"
    /\ last.pre.st[2].n = 2
    /\ last.pre.st[3].n = 2
    /\ Len(Rest(last.pre)) = 3
    /\ last.out = <<>>

\* the stages that have completed or failed
EndedStages == {s \in 2..Len(st) : st[s].gen = "done"}

\* the call made last was made on the stage and reported completion or
\* failed
StageEnded ==
    /\ run.op = "" /\ last.op \in {"next", "collect", "return"} /\ last.s = 2
    /\ last.err # "" \/ last.done

C30_WitnessItemsLeft ==
    /\ run.op = "" /\ last.op = "next" /\ last.s = 2
    /\ last.pre.st[2].kind \in {"filter", "pack", "skip", "takeLast"}
    /\ last.pre.st[2].gen = "done"
    /\ last.pre.src.pos = 0
    /\ last.done
    /\ Len(Rest(Now)) = 3
    /\ ~Pull(Now, 1).r.done

\* a repack stage that failed on an item that is no array was pulled again
C30_WitnessTypeError ==
    /\ run.op = "" /\ last.op = "next" /\ last.s = 2
    /\ last.pre.st[2].kind \in {"repack", "flat"}
    /\ last.pre.st[2].gen = "done"
    /\ \E i \in 1..Len(src.items) : ~isArray(src.items[i])
    /\ last.done

\* the failures that arise in the body of a loop over a stream
BodyErrors == {"failAtOne", "TypeError"}

\* the call made last failed in the body of a loop over a stream
BodyFailed ==
    /\ run.op = "" /\ last.op \in {"next", "collect", "reduce", "forEach"}
    /\ last.err \in BodyErrors

\* the failure came from the callback of reduce or forEach itself: the
\* last thing done before the first return was a call of their callback
InTerminal ==
    /\ last.op \in {"reduce", "forEach"}
    /\ last.err = "failAtOne"
    /\ \E i \in 2..Len(last.tr) :
          /\ last.tr[i].c = "return"
          /\ \A j \in 1..(i - 1) : last.tr[j].c # "return"
          /\ last.tr[i - 1].c = "call"
          /\ last.tr[i - 1].s = 0

\* the stream the failing loop was iterating
Iterated == IF InTerminal THEN last.s ELSE 1

\* the position in trace tr of the first return on stream s, 0 when none
FirstReturn(tr, s) ==
    LET at == {i \in 1..Len(tr) : tr[i] = [c |-> "return", s |-> s]}
    IN  IF at = {} THEN 0 ELSE CHOOSE i \in at : \A j \in at : i <= j

\* C31: when a map transform, a filter predicate, a reducer or a forEach
\* action fails, or repack or flat receives an item that is no array, the
\* call fails with that error after return was called once on the stream
\* the loop was iterating, following the failing callback or the pull that
\* gave the item, and nothing is pulled after it.  A stage that failed, or
\* was iterated by the failing reduce or forEach, is completed.  Over a
\* source with a return method the root reports completion from then on
\* and gives no more items; a source without a return method goes on
\* giving items.  The return on a stage iterated by reduce or forEach
\* reaches the root too, unless the stage is a take stage, which passes
\* nothing on, or had emitted its last item after the root ended
C31_FailureTerminates ==
    BodyFailed =>
        LET tr == last.tr
            r == FirstReturn(tr, Iterated)
            reachesRoot == FirstReturn(tr, 1) > 0
        IN  /\ r > 0
            /\ \A i \in r..Len(tr) : tr[i].c = "return"
            /\ \A s \in 1..2 :
                  Cardinality({i \in 1..Len(tr) : tr[i] = [c |-> "return", s |-> s]}) <= 1
            /\ ~InTerminal => last.s = 2 /\ tr[r - 1].c \in {"call", "next"}
            /\ InTerminal => tr[r - 1] = Calls(tr)[Len(Calls(tr))]
            /\ (~InTerminal \/ Iterated = 2) =>
                  /\ st[2].gen = "done"
                  /\ Pull(Now, 2).r = Done(Undef)
            /\ Iterated = 1 => reachesRoot
            /\ Iterated = 2 =>
                  IF st[2].kind = "take" THEN ~reachesRoot
                  ELSE reachesRoot \/ Pull(last.pre, 1).r.done \/ Pull(Now, 1).r.done
            /\ (reachesRoot /\ hasReturn(src)) =>
                  /\ Pull(Now, 1).r.done /\ Pull(Now, 1).r.err = ""
                  /\ collected(Now, 1, <<>>).out = <<>>
            /\ (reachesRoot /\ ~hasReturn(src) /\ src.pos < NatCap) => ~Pull(Now, 1).r.done

\* collect on a map stage failed in the transform with an item left in the
\* source, which the root no longer gives
C31_Witness ==
    /\ BodyFailed /\ last.op = "collect" /\ last.err = "failAtOne"
    /\ last.pre.st[2].kind = "map"
    /\ src.kind = "array"
    /\ src.pos = 2 /\ Len(src.items) = 3
    /\ Pull(Now, 1).r = Done(Undef)

\* forEach on the root failed in its action with an item left
C31_WitnessForEach ==
    /\ BodyFailed /\ last.op = "forEach" /\ last.s = 1
    /\ src.kind = "array"
    /\ src.pos = 2 /\ Len(src.items) = 3
    /\ Pull(Now, 1).r = Done(Undef)

\* flat met an item that is no array, with a page left in the source
C31_WitnessShape ==
    /\ BodyFailed /\ last.err = "TypeError"
    /\ last.pre.st[2].kind = "flat"
    /\ src.pos < Len(src.items)
    /\ Pull(Now, 1).r = Done(Undef)

\* reduce failed over the source without a return method, which goes on
\* giving items
C31_WitnessNoReturn ==
    /\ BodyFailed /\ last.op = "reduce"
    /\ src.kind = "nextOnly"
    /\ FirstReturn(last.tr, 1) > 0
    /\ ~Pull(Now, 1).r.done

\* reduce on a take stage failed in the reducer: the stage is completed and
\* the root still gives the item left
C31_WitnessTake ==
    /\ BodyFailed /\ InTerminal /\ last.s = 2
    /\ last.pre.st[2].kind = "take"
    /\ src.kind = "array"
    /\ ~Pull(Now, 1).r.done

\* throw was called on the stage, which was suspended after emitting an
\* item
ThrownAfterItem ==
    /\ run.op = "" /\ last.op = "throw" /\ last.s = 2
    /\ last.pre.st[2].gen = "yield"
    /\ last.pre.st[2].kind \in {"map", "filter", "pack", "repack", "flat", "skip"}

\* C32 as claimed: throw(e) on a map, filter, pack, repack, flat or skip
\* stage suspended after emitting an item fails with e, leaves the stage
\* completed and calls return, not throw, on the root
C32_ReturnDelivered ==
    ThrownAfterItem =>
        /\ last.err = last.e
        /\ st[2].gen = "done"
        /\ last.tr = <<[c |-> "throw", s |-> 2], [c |-> "return", s |-> 1]>>

\* C32 amended: throw(e) on a stage never calls throw on the root, fails
\* with e and leaves the stage completed.  On a map, filter, flat or skip
\* stage suspended after emitting an item, and on a pack or repack stage
\* suspended after emitting a group from inside its loop, it calls return
\* once on the root, which gives the source what return() gives it when
\* the source has a return method and leaves it alone otherwise.  On a
\* pack or repack stage suspended after emitting its final, partial group
\* it calls nothing on the root and leaves the source as it was
C32_ThrowBecomesReturn ==
    (run.op = "" /\ last.op = "throw" /\ last.s = 2) =>
        /\ last.err = last.e
        /\ st[2].gen = "done"
        /\ \A i \in 1..Len(last.tr) : last.tr[i] # [c |-> "throw", s |-> 1]
        /\ Pull(Now, 2).r = Done(Undef)
        /\ ThrownAfterItem =>
              IF SuspendedInLoop(last.pre.st[2])
              THEN /\ last.tr = <<[c |-> "throw", s |-> 2], [c |-> "return", s |-> 1]>>
                   /\ src = IF hasReturn(last.pre.src)
                            THEN SourceReturn(last.pre.src, Undef).src
                            ELSE last.pre.src
              ELSE /\ last.pre.st[2].kind \in {"pack", "repack"}
                   /\ last.pre.st[2].at = "tail"
                   /\ last.tr = <<[c |-> "throw", s |-> 2]>>
                   /\ src = last.pre.src

\* an error was thrown into a map stage suspended over the generator that
\* catches errors, itself suspended inside its try block: the generator
\* is completed and has caught nothing
C32_Witness ==
    /\ ThrownAfterItem
    /\ last.pre.st[2].kind = "map"
    /\ last.pre.src.kind = "catching"
    /\ InTry(last.pre.src)
    /\ src.state = "done"
    /\ last.err = "erro"

\* an error was thrown into a pack stage suspended after its final,
\* partial group
C32_WitnessTail ==
    /\ ThrownAfterItem
    /\ last.pre.st[2].kind = "pack"
    /\ last.pre.st[2].at = "tail"
    /\ last.tr = <<[c |-> "throw", s |-> 2]>>
    /\ last.err = last.e

\* return was called on the stage, a take stage or a stage not pulled yet
ReturnedAlone ==
    /\ run.op = "" /\ last.op = "return" /\ last.s = 2
    /\ last.pre.st[2].kind = "take" \/ last.pre.st[2].gen = "start"

\* C33: return on a take(n) stage, n > 0, at any point of its life, and on
\* a stage of any kind that was not pulled yet, reports completion and
\* completes the stage, calls nothing on the root and leaves the source
\* where it was: the root goes on to deliver every item the source had
\* left, and the stage delivers nothing more
C33_ReturnStaysLocal ==
    ReturnedAlone =>
        /\ last.err = "" /\ last.done /\ last.value = last.arg
        /\ last.tr = <<[c |-> "return", s |-> 2]>>
        /\ src = last.pre.src
        /\ st[1] = last.pre.st[1]
        /\ st[2].gen = "done"
        /\ Pull(Now, 2).r = Done(Undef)
        /\ Pull(Now, 2).S.src = src
        /\ Rest(Now) = Rest(last.pre)
        /\ LET all == collected(Now, 1, <<>>)
           IN  all.err = "" /\ all.out = Rest(last.pre)

\* take(2) gave one item of three and was returned: the root still gives
\* the other two
C33_Witness ==
    /\ ReturnedAlone
    /\ last.pre.st[2].kind = "take"
    /\ last.pre.st[2].n = 2
    /\ last.pre.st[2].gen = "yield"
    /\ src.pos = 1
    /\ collected(Now, 1, <<>>).out = <<Num(2), Num(3)>>

\* a skip stage was returned before its first pull, over a source of three
\* items that the root still gives
C33_WitnessNeverPulled ==
    /\ ReturnedAlone
    /\ last.pre.st[2].kind = "skip"
    /\ last.pre.st[2].n = 1
    /\ last.pre.st[2].gen = "start"
    /\ collected(Now, 1, <<>>).out = <<Num(1), Num(2), Num(3)>>

====
